---- MODULE Spec2Model ----
(***************************************************************************)
(* Model of the slide-structure classifier of src/parser.py (PPTParser):  *)
(* the single left-to-right pass _analyze_hierarchical_structure, the     *)
(* pattern predicates it calls, and the parser instance state it shares.  *)
(*                                                                         *)
(* Text is modelled as a sequence of Unicode code points (Python str), so *)
(* that keyword containment, regular expressions, lower() and strip() are *)
(* computed on characters as the code computes them.                      *)
(***************************************************************************)
EXTENDS Integers, Sequences, FiniteSets, TLC

\* Largest deck the parse loop reads (bound of the model).
MaxSlides == 4

----------------------------------------------------------------------------
(* Characters and strings                                                  *)

\* Python's \d on str: ASCII digits and the fullwidth digits (the decimal
\* digits among the code points _clean_text lets through).
IsDigit(c) == c \in 48..57 \/ c \in 65296..65305

\* Python's \s on str.
IsSpace(c) ==
    \/ c \in {9, 10, 11, 12, 13, 28, 29, 30, 31, 32, 133, 160, 5760}
    \/ c \in 8192..8202
    \/ c \in {8232, 8233, 8239, 8287, 12288}

\* str.lower() on one character: A-Z and fullwidth A-Z have a lower case.
LowerChar(c) == IF c \in 65..90 \/ c \in 65313..65338 THEN c + 32 ELSE c

\* str.lower()
Lower(s) == [k \in 1..Len(s) |-> LowerChar(s[k])]

\* str.strip()
Strip(s) ==
    LET keep == {k \in 1..Len(s) : ~IsSpace(s[k])}
    IN  IF keep = {} THEN <<>>
        ELSE LET lo == CHOOSE k \in keep : \A j \in keep : k <= j
                 hi == CHOOSE k \in keep : \A j \in keep : k >= j
             IN  SubSeq(s, lo, hi)

\* kw in s   (Python substring test)
Contains(s, kw) ==
    \E k \in 0..(Len(s) - Len(kw)) : \A j \in 1..Len(kw) : s[k + j] = kw[j]

\* any(kw in s for kw in kws)
ContainsAny(s, kws) == \E n \in 1..Len(kws) : Contains(s, kws[n])

\* "".join(parts)
RECURSIVE Concat(_)
Concat(parts) ==
    IF parts = <<>> THEN <<>> ELSE Head(parts) \o Concat(Tail(parts))

\* " ".join(parts)
RECURSIVE JoinSpace(_)
JoinSpace(parts) ==
    IF parts = <<>> THEN <<>>
    ELSE IF Len(parts) = 1 THEN Head(parts)
    ELSE Head(parts) \o <<32>> \o JoinSpace(Tail(parts))

\* sum(len(c) for c in parts)
RECURSIVE SumLen(_)
SumLen(parts) ==
    IF parts = <<>> THEN 0 ELSE Len(Head(parts)) + SumLen(Tail(parts))

\* str(n) for a non-negative integer
RECURSIVE IntToStr(_)
IntToStr(n) ==
    IF n < 10 THEN <<48 + n>> ELSE IntToStr(n \div 10) \o <<48 + (n % 10)>>

----------------------------------------------------------------------------
(* Regular expressions: every pattern of the source is a concatenation of  *)
(* quantified character classes anchored at both ends.  A class is a set   *)
(* of code points, possibly negated; an item is a class with a repetition  *)
(* range (hi = -1 is unbounded).                                           *)

Cls(chars)    == [neg |-> FALSE, chars |-> chars]
NotCls(chars) == [neg |-> TRUE, chars |-> chars]
InClass(c, cls) == IF cls.neg THEN c \notin cls.chars ELSE c \in cls.chars

ClsDigit == Cls((48..57) \cup (65296..65305))                \* \d
ClsSpace == Cls({9, 10, 11, 12, 13, 28, 29, 30, 31, 32, 133, 160, 12288})  \* \s
ClsAny   == NotCls({10})                                     \* .
ClsCnNum == Cls({19968, 20108, 19977, 22235, 20116, 20845, 19971, 20843, 20061, 21313})  \* [一二三四五六七八九十]
ClsCnNumDigit == Cls(ClsCnNum.chars \cup ClsDigit.chars)     \* [一二三四五六七八九十\d]
ClsSep   == Cls({12289, 46})                                 \* [、\.]
ClsUpper == Cls(65..90)                                      \* [A-Z]
ClsLower == Cls(97..122)                                     \* [a-z]
ClsCircled == Cls(9312..9321)                                \* [①②③④⑤⑥⑦⑧⑨⑩]

One(cls)  == <<[cls |-> cls, lo |-> 1, hi |-> 1]>>
Opt(cls)  == <<[cls |-> cls, lo |-> 0, hi |-> 1]>>
Star(cls) == <<[cls |-> cls, lo |-> 0, hi |-> -1]>>
Plus(cls) == <<[cls |-> cls, lo |-> 1, hi |-> -1]>>
Lit(str)  == [k \in 1..Len(str) |-> [cls |-> Cls({str[k]}), lo |-> 1, hi |-> 1]]

\* The positions of s an item can end at when it starts after position p.
ItemEnds(item, s, p) ==
    {q \in p..Len(s) :
        /\ q - p >= item.lo
        /\ item.hi = -1 \/ q - p <= item.hi
        /\ \A j \in (p + 1)..q : InClass(s[j], item.cls)}

\* The positions of s the first n items of a pattern can end at, from 0.
RECURSIVE PatternEnds(_, _, _)
PatternEnds(pattern, n, s) ==
    IF n = 0 THEN {0}
    ELSE UNION {ItemEnds(pattern[n], s, p) : p \in PatternEnds(pattern, n - 1, s)}

\* re.match('^' + pattern + '$', s): '$' also matches before one trailing
\* newline.
ReMatch(pattern, s) ==
    LET ends == PatternEnds(pattern, Len(pattern), s)
    IN  \/ Len(s) \in ends
        \/ Len(s) > 0 /\ s[Len(s)] = 10 /\ (Len(s) - 1) \in ends

----------------------------------------------------------------------------
(* Keyword tables of PPTParser.__init__                                    *)

\* self.toc_keywords
toc_keywords ==
    <<
       <<30446, 24405>>,  \* 目录
       <<22823, 32434>>,  \* 大纲
       <<35758, 31243>>,  \* 议程
       <<26085, 31243>>,  \* 日程
       <<20869, 23481, 25552, 35201>>,  \* 内容提要
       <<20869, 23481, 27010, 35272>>,  \* 内容概览
       <<20027, 35201, 35758, 39064>>,  \* 主要议题
       <<35838, 31243, 22823, 32434>>,  \* 课程大纲
       <<25945, 23398, 22823, 32434>>,  \* 教学大纲
       <<25253, 21578, 22823, 32434>>,  \* 报告大纲
       <<32434, 35201>>,  \* 纲要
       <<116, 97, 98, 108, 101, 32, 111, 102, 32, 99, 111, 110, 116, 101, 110, 116, 115>>,  \* table of contents
       <<99, 111, 110, 116, 101, 110, 116, 115>>,  \* contents
       <<97, 103, 101, 110, 100, 97>>,  \* agenda
       <<115, 99, 104, 101, 100, 117, 108, 101>>,  \* schedule
       <<111, 117, 116, 108, 105, 110, 101>>,  \* outline
       <<105, 110, 100, 101, 120>>,  \* index
       <<115, 121, 108, 108, 97, 98, 117, 115>>,  \* syllabus
       <<99, 117, 114, 114, 105, 99, 117, 108, 117, 109>>,  \* curriculum
       <<112, 114, 111, 103, 114, 97, 109>>   \* program
    >>

\* self.chapter_keywords
chapter_keywords ==
    <<
       <<31456>>,  \* 章
       <<31456, 33410>>,  \* 章节
       <<33410>>,  \* 节
       <<37096, 20998>>,  \* 部分
       <<31687>>,  \* 篇
       <<21333, 20803>>,  \* 单元
       <<27169, 22359>>,  \* 模块
       <<35838>>,  \* 课
       <<35762>>,  \* 讲
       <<35762, 27425>>,  \* 讲次
       <<99, 104, 97, 112, 116, 101, 114>>,  \* chapter
       <<112, 97, 114, 116>>,  \* part
       <<115, 101, 99, 116, 105, 111, 110>>,  \* section
       <<117, 110, 105, 116>>,  \* unit
       <<109, 111, 100, 117, 108, 101>>,  \* module
       <<108, 101, 115, 115, 111, 110>>,  \* lesson
       <<108, 101, 99, 116, 117, 114, 101>>   \* lecture
    >>

\* self.section_keywords
section_keywords ==
    <<
       <<23567, 33410>>,  \* 小节
       <<23567, 26631, 39064>>,  \* 小标题
       <<26631, 39064>>,  \* 标题
       <<35201, 28857>>,  \* 要点
       <<20027, 39064>>,  \* 主题
       <<35805, 39064>>,  \* 话题
       <<23376, 39033>>,  \* 子项
       <<23376, 26631, 39064>>,  \* 子标题
       <<115, 117, 98, 115, 101, 99, 116, 105, 111, 110>>,  \* subsection
       <<115, 117, 98, 104, 101, 97, 100, 105, 110, 103>>,  \* subheading
       <<112, 111, 105, 110, 116>>,  \* point
       <<116, 111, 112, 105, 99>>,  \* topic
       <<115, 117, 98, 112, 111, 105, 110, 116>>,  \* subpoint
       <<115, 117, 98, 116, 105, 116, 108, 101>>   \* subtitle
    >>

\* self.end_keywords
end_keywords ==
    <<
       <<32467, 26463>>,  \* 结束
       <<23436>>,  \* 完
       <<116, 104, 101, 32, 101, 110, 100>>,  \* the end
       <<35874, 35874>>,  \* 谢谢
       <<116, 104, 97, 110, 107, 32, 121, 111, 117>>,  \* thank you
       <<113, 38, 97>>,  \* q&a
       <<38382, 31572>>,  \* 问答
       <<35752, 35770>>,  \* 讨论
       <<38382, 39064>>,  \* 问题
       <<35874, 35874, 35266, 30475>>,  \* 谢谢观看
       <<24863, 35874, 32838, 21548>>,  \* 感谢聆听
       <<24863, 35874, 20542, 21548>>,  \* 感谢倾听
       <<27426, 36814, 25552, 38382>>,  \* 欢迎提问
       <<97, 110, 121, 32, 113, 117, 101, 115, 116, 105, 111, 110, 115>>,  \* any questions
       <<116, 104, 97, 110, 107, 115>>,  \* thanks
       <<24863, 35874>>,  \* 感谢
       <<32467, 35821>>,  \* 结语
       <<24635, 32467>>,  \* 总结
       <<22238, 39038>>,  \* 回顾
       <<102, 117, 116, 117, 114, 101, 32, 119, 111, 114, 107>>,  \* future work
       <<99, 111, 110, 99, 108, 117, 115, 105, 111, 110>>,  \* conclusion
       <<101, 110, 100, 105, 110, 103>>,  \* ending
       <<102, 105, 110, 105, 115, 104>>,  \* finish
       <<100, 111, 110, 101>>,  \* done
       <<114, 101, 102, 101, 114, 101, 110, 99, 101, 115>>,  \* references
       <<21442, 32771, 25991, 29486>>,  \* 参考文献
       <<33268, 35874>>,  \* 致谢
       <<97, 99, 107, 110, 111, 119, 108, 101, 100, 103, 101, 109, 101, 110, 116>>,  \* acknowledgement
       <<20877, 35265>>,  \* 再见
       <<103, 111, 111, 100, 98, 121, 101>>,  \* goodbye
       <<116, 104, 101, 32, 101, 110, 100>>,  \* the end
       <<113, 117, 101, 115, 116, 105, 111, 110, 115, 63>>,  \* questions?
       <<113, 32, 38, 32, 97>>,  \* q & a
       <<35752, 35770, 19982, 38382, 31572>>   \* 讨论与问答
    >>

\* self.summary_keywords
summary_keywords ==
    <<
       <<24635, 32467>>,  \* 总结
       <<23567, 32467>>,  \* 小结
       <<35201, 28857, 22238, 39038>>,  \* 要点回顾
       <<20027, 35201, 20869, 23481>>,  \* 主要内容
       <<25688, 35201>>,  \* 摘要
       <<27010, 25324>>,  \* 概括
       <<115, 117, 109, 109, 97, 114, 121>>,  \* summary
       <<99, 111, 110, 99, 108, 117, 115, 105, 111, 110>>,  \* conclusion
       <<107, 101, 121, 32, 112, 111, 105, 110, 116, 115>>,  \* key points
       <<116, 97, 107, 101, 97, 119, 97, 121, 115>>,  \* takeaways
       <<114, 101, 99, 97, 112>>,  \* recap
       <<27010, 36848>>,  \* 概述
       <<27010, 35201>>,  \* 概要
       <<26680, 24515, 20869, 23481>>,  \* 核心内容
       <<37325, 28857>>,  \* 重点
       <<35201, 26088>>   \* 要旨
    >>

\* title_page_indicators
title_page_indicators ==
    <<
       <<25253, 21578>>,  \* 报告
       <<28436, 35762>>,  \* 演讲
       <<27719, 25253>>,  \* 汇报
       <<20171, 32461>>,  \* 介绍
       <<112, 114, 101, 115, 101, 110, 116, 97, 116, 105, 111, 110>>,  \* presentation
       <<114, 101, 112, 111, 114, 116>>,  \* report
       <<22521, 35757>>,  \* 培训
       <<35762, 24231>>,  \* 讲座
       <<35838, 31243>>,  \* 课程
       <<119, 111, 114, 107, 115, 104, 111, 112>>,  \* workshop
       <<115, 101, 109, 105, 110, 97, 114>>,  \* seminar
       <<20998, 20139>>   \* 分享
    >>

----------------------------------------------------------------------------
(* Content types (SlideStructure.content_type) and fixed titles            *)

MainTitle       == <<20027, 26631, 39064>>          \* 主标题
TOC             == <<30446, 24405>>                 \* 目录
ChapterTitle    == <<31456, 33410, 26631, 39064>>   \* 章节标题
SectionTitle    == <<23567, 33410, 26631, 39064>>   \* 小节标题
ImagePage       == <<22270, 29255, 39029>>          \* 图片页
Body            == <<27491, 25991>>                 \* 正文
EndPage         == <<32467, 23614, 39029>>          \* 结尾页
Acknowledgement == <<33268, 35874>>                 \* 致谢
References      == <<21442, 32771, 25991, 29486>>   \* 参考文献
QA              == <<38382, 31572>>                 \* 问答
EmptyPage       == <<31354, 30333, 39029>>          \* 空白页

Outline    == <<22823, 32434>>                      \* 大纲
EndSection == <<32467, 23614, 37096, 20998>>        \* 结尾部分

\* f"幻灯片 {n}"
SlideLabel(n) == <<24187, 28783, 29255, 32>> \o IntToStr(n)

----------------------------------------------------------------------------
(* Text weight                                                             *)

\* [一-龥], [a-zA-Z] and \d characters of title + content + bullets
CountChars(slide) ==
    LET total_text == slide.title \o Concat(slide.content)
                                  \o Concat(slide.bullet_points)
    IN  Cardinality({k \in 1..Len(total_text) :
            \/ total_text[k] \in 19968..40869
            \/ total_text[k] \in 65..90 \/ total_text[k] \in 97..122
            \/ IsDigit(total_text[k])})

_count_slide_text_chars(slide) == CountChars(slide)

_count_text_chars(slide) == CountChars(slide)

----------------------------------------------------------------------------
(* Pattern predicates                                                      *)

\* r'^第[一二三四五六七八九十\d]+' + word + '.*$'
DiPattern(word) ==
    Lit(<<31532>>) \o Plus(ClsCnNumDigit) \o Lit(word) \o Star(ClsAny)

chapter_simple_patterns ==
    <<
       Plus(ClsDigit) \o One(ClsSep) \o Star(ClsSpace) \o Plus(ClsAny),   \* ^\d+[、\.]\s*.+$
       Plus(ClsCnNum) \o One(ClsSep) \o Star(ClsSpace) \o Plus(ClsAny),   \* ^[一二三四五六七八九十]+[、\.]\s*.+$
       Lit(<<31532>>) \o Plus(ClsCnNumDigit) \o One(Cls({31456, 33410})) \o Star(ClsAny),  \* ^第[...]+[章节].*$
       One(ClsUpper) \o One(ClsSep) \o Star(ClsSpace) \o Plus(ClsAny),    \* ^[A-Z][、\.]\s*.+$
       Lit(<<40>>) \o Plus(ClsDigit) \o Lit(<<41>>) \o Star(ClsSpace) \o Plus(ClsAny),  \* ^\(\d+\)\s*.+$
       DiPattern(<<37096, 20998>>),                                       \* ^第[...]+部分.*$
       DiPattern(<<21333, 20803>>),                                       \* ^第[...]+单元.*$
       DiPattern(<<35762>>),                                              \* ^第[...]+讲.*$
       DiPattern(<<35838>>),                                              \* ^第[...]+课.*$
       Lit(<<67, 104, 97, 112, 116, 101, 114>>) \o Plus(ClsSpace) \o Plus(ClsDigit) \o Star(ClsAny),  \* ^Chapter\s+\d+.*$
       Lit(<<80, 97, 114, 116>>) \o Plus(ClsSpace) \o Plus(ClsDigit) \o Star(ClsAny),  \* ^Part\s+\d+.*$
       Plus(ClsDigit) \o Plus(ClsSpace) \o Star(ClsAny),                  \* ^\d+\s+.*$
       Plus(ClsDigit)                                                     \* ^\d+$
    >>

section_simple_patterns ==
    <<
       Plus(ClsDigit) \o Lit(<<46>>) \o Plus(ClsDigit) \o Opt(ClsSep) \o Plus(ClsAny),  \* ^\d+\.\d+[、\.]?.+$
       One(ClsLower) \o One(ClsSep) \o Star(ClsSpace) \o Plus(ClsAny),    \* ^[a-z][、\.]\s*.+$
       Lit(<<40>>) \o One(ClsLower) \o Lit(<<41>>) \o Star(ClsSpace) \o Plus(ClsAny),  \* ^\([a-z]\)\s*.+$
       One(ClsCircled) \o Star(ClsSpace) \o Plus(ClsAny),                 \* ^[①②③④⑤⑥⑦⑧⑨⑩]\s*.+$
       Plus(ClsDigit) \o Lit(<<46>>) \o Plus(ClsDigit) \o Lit(<<46>>) \o Plus(ClsDigit)
           \o Opt(ClsSep) \o Plus(ClsAny),                                \* ^\d+\.\d+\.\d+[、\.]?.+$
       One(ClsCnNum) \o Lit(<<46>>) \o Plus(ClsDigit) \o Opt(ClsSep) \o Plus(ClsAny),  \* ^[一二三四五六七八九十]\.\d+[、\.]?.+$
       Lit(<<40>>) \o Plus(ClsDigit) \o Lit(<<41>>) \o Star(ClsSpace) \o Plus(ClsAny),  \* ^\(\d+\)\s*.+$
       Plus(ClsDigit) \o Lit(<<46>>) \o Plus(ClsDigit) \o Opt(ClsSep) \o Plus(ClsAny),  \* ^\d+\.\d+[、\.]?.+$
       Plus(ClsDigit) \o Plus(ClsSpace) \o Star(ClsAny),                  \* ^\d+\s+.*$
       Plus(ClsDigit)                                                     \* ^\d+$
    >>

\* r'^幻灯片\s*\d+$'
GenericSlideTitle == Lit(<<24187, 28783, 29255>>) \o Star(ClsSpace) \o Plus(ClsDigit)

\* r'^Slide\s*\d+$' with re.IGNORECASE (matched on the lower-cased text)
GenericSlideTitleEn == Lit(<<115, 108, 105, 100, 101>>) \o Star(ClsSpace) \o Plus(ClsDigit)

\* str.isdigit() of a non-empty string
IsDigitStr(s) == Len(s) > 0 /\ \A k \in 1..Len(s) : IsDigit(s[k]) \/ s[k] \in 9312..9320

_is_chapter_title_simple(title) ==
    LET title_clean == Strip(title)
    IN  IF Len(title_clean) = 0 THEN FALSE
        ELSE IF ReMatch(GenericSlideTitle, title_clean) THEN FALSE
        ELSE IF ReMatch(GenericSlideTitleEn, Lower(title_clean)) THEN FALSE
        ELSE \/ \E n \in 1..Len(chapter_simple_patterns) :
                    ReMatch(chapter_simple_patterns[n], title_clean)
             \* ^0\d+\s*.+$
             \/ ReMatch(Lit(<<48>>) \o Plus(ClsDigit) \o Star(ClsSpace) \o Plus(ClsAny),
                        title_clean)
             \* ^[1-9]\s+[^\d].+$
             \/ ReMatch(One(Cls(49..57)) \o Plus(ClsSpace) \o One(NotCls(ClsDigit.chars))
                            \o Plus(ClsAny), title_clean)
             \* ^[1-9]\s+.+$
             \/ ReMatch(One(Cls(49..57)) \o Plus(ClsSpace) \o Plus(ClsAny), title_clean)
             \/ Len(title_clean) < 30
                    /\ \E n \in 1..Len(chapter_keywords) :
                          Contains(Lower(title_clean), Lower(chapter_keywords[n]))
             \/ IsDigitStr(title_clean)

_is_section_title_simple(title) ==
    LET title_clean == Strip(title)
    IN  IF Len(title_clean) < 1 THEN FALSE
        ELSE IF ReMatch(GenericSlideTitle, title_clean) THEN FALSE
        ELSE \/ \E n \in 1..Len(section_simple_patterns) :
                    ReMatch(section_simple_patterns[n], title_clean)
             \/ Len(title_clean) < 25
                    /\ \E n \in 1..Len(section_keywords) :
                          Contains(Lower(title_clean), Lower(section_keywords[n]))
             \/ IsDigitStr(title_clean)

\* The keyword test shared by _is_toc_slide_improved and its simple variant:
\* a keyword in the lower-cased title, else in the lower-cased joined text.
HasTocKeyword(slide) ==
    \/ \E n \in 1..Len(toc_keywords) :
           Contains(Lower(slide.title), Lower(toc_keywords[n]))
    \/ \E n \in 1..Len(toc_keywords) :
           Contains(Lower(JoinSpace(slide.content \o slide.bullet_points)),
                    Lower(toc_keywords[n]))

_is_toc_slide_improved_simple(slide, slide_num, total_slides) == HasTocKeyword(slide)

_is_empty_slide(slide) ==
    LET has_title   == Len(slide.title) > 0 /\ Len(Strip(slide.title)) > 0
        has_content == Len(slide.content) > 0 \/ Len(slide.bullet_points) > 0
        has_images  == Len(slide.images) > 0
    IN  ~(has_title \/ has_content \/ has_images)

\* _is_image_page asking for a caption: some text, but fewer than 10
\* characters of it.
_is_image_page_NeedsCaption(slide) ==
    IF Len(slide.images) = 0 THEN FALSE
    ELSE _count_text_chars(slide) > 0 /\ _count_text_chars(slide) < 10

_is_image_page(slide) ==
    IF Len(slide.images) = 0 THEN FALSE ELSE _count_text_chars(slide) < 10

_is_title_page(slide) ==
    LET title == slide.title
        total_text == Len(title) + SumLen(slide.content) + SumLen(slide.bullet_points)
    IN  IF Len(title) > 50 THEN FALSE
        ELSE \/ ContainsAny(Lower(title), title_page_indicators)
             \/ Contains(title, <<58>>) \/ Contains(title, <<65306>>)
                    \/ Contains(title, <<8212, 8212>>)
             \/ total_text < 100 /\ slide.slide_number = 0

\* The sub-classification both end-page detectors apply once an ending
\* keyword was found: it reads the joined content/bullet text only.
EndSubType(text_lower) ==
    IF ContainsAny(text_lower, << <<35874, 35874>>, <<24863, 35874>>,
                                  <<116, 104, 97, 110, 107>> >>)        \* 谢谢 感谢 thank
    THEN Acknowledgement
    ELSE IF ContainsAny(text_lower, << <<114, 101, 102, 101, 114, 101, 110, 99, 101>>,
                                       <<21442, 32771, 25991, 29486>> >>)  \* reference 参考文献
    THEN References
    ELSE IF ContainsAny(text_lower, << <<113, 38, 97>>, <<38382, 31572>> >>)  \* q&a 问答
    THEN QA
    ELSE EndPage

\* Returns <<is_end, end_type>>
_detect_end_page_simple(slide, slide_num, total_slides) ==
    LET text_lower == Lower(JoinSpace(slide.content \o slide.bullet_points))
        title_lower == Lower(slide.title)
    IN  IF slide_num # total_slides - 1 THEN <<FALSE, <<>> >>
        ELSE IF \E n \in 1..Len(end_keywords) :
                    Contains(text_lower, end_keywords[n]) \/ Contains(title_lower, end_keywords[n])
        THEN <<TRUE, EndSubType(text_lower)>>
        ELSE <<FALSE, <<>> >>

\* _detect_end_page without the test that the slide is the last one.
_detect_end_page_AnyPosition(slide, slide_num, total_slides) ==
    LET text_lower == Lower(JoinSpace(slide.content \o slide.bullet_points))
        title_lower == Lower(slide.title)
    IN  IF \E n \in 1..Len(end_keywords) :
                    Contains(text_lower, end_keywords[n]) \/ Contains(title_lower, end_keywords[n])
        THEN <<TRUE, EndSubType(text_lower)>>
        ELSE IF \E n \in 1..Len(summary_keywords) :
                    Contains(text_lower, summary_keywords[n])
                        \/ Contains(title_lower, summary_keywords[n])
        THEN <<TRUE, EndPage>>
        ELSE IF Len(slide.images) > 0 /\ _count_text_chars(slide) < 10
        THEN <<TRUE, EndPage>>
        ELSE IF _count_text_chars(slide) < 10
        THEN <<TRUE, EndPage>>
        ELSE <<FALSE, <<>> >>

\* Returns <<is_end, end_type>>
_detect_end_page(slide, slide_num, total_slides) ==
    LET text_lower == Lower(JoinSpace(slide.content \o slide.bullet_points))
        title_lower == Lower(slide.title)
    IN  IF slide_num # total_slides - 1 THEN <<FALSE, <<>> >>
        ELSE IF \E n \in 1..Len(end_keywords) :
                    Contains(text_lower, end_keywords[n]) \/ Contains(title_lower, end_keywords[n])
        THEN <<TRUE, EndSubType(text_lower)>>
        ELSE IF \E n \in 1..Len(summary_keywords) :
                    Contains(text_lower, summary_keywords[n])
                        \/ Contains(title_lower, summary_keywords[n])
        THEN <<TRUE, EndPage>>
        ELSE IF Len(slide.images) > 0 /\ _count_text_chars(slide) < 10
        THEN <<TRUE, EndPage>>
        ELSE IF _count_text_chars(slide) < 10
        THEN <<TRUE, EndPage>>
        ELSE <<FALSE, <<>> >>

\* _classify_slide_content_strict with the title-page rule tried at every
\* position instead of position 0 only.
_classify_slide_content_strict_AnyPosition(slide, slide_num, total_slides) ==
    LET end == _detect_end_page_simple(slide, slide_num, total_slides)
        has_title   == Len(slide.title) > 0 /\ Len(Strip(slide.title)) > 0
        has_content == Len(slide.content) > 0 \/ Len(slide.bullet_points) > 0
    IN  IF _is_empty_slide(slide) THEN EmptyPage
        ELSE IF _is_title_page(slide) THEN MainTitle
        ELSE IF _is_toc_slide_improved_simple(slide, slide_num, total_slides) THEN TOC
        ELSE IF end[1]
        THEN (IF end[2] \in {Acknowledgement, References, QA} THEN end[2] ELSE EndPage)
        ELSE IF Len(slide.title) > 0 /\ _count_slide_text_chars(slide) <= 50
                    /\ _is_chapter_title_simple(slide.title)
        THEN ChapterTitle
        ELSE IF _is_image_page(slide) THEN ImagePage
        ELSE IF has_title \/ has_content
        THEN (IF Len(slide.title) > 0 /\ _count_slide_text_chars(slide) <= 50
                    /\ _is_section_title_simple(slide.title)
              THEN SectionTitle
              ELSE Body)
        ELSE EmptyPage

\* _classify_slide_content_strict with the image-page test before the
\* chapter-title test.
_classify_slide_content_strict_ImageFirst(slide, slide_num, total_slides) ==
    LET end == _detect_end_page_simple(slide, slide_num, total_slides)
        has_title   == Len(slide.title) > 0 /\ Len(Strip(slide.title)) > 0
        has_content == Len(slide.content) > 0 \/ Len(slide.bullet_points) > 0
    IN  IF _is_empty_slide(slide) THEN EmptyPage
        ELSE IF slide_num = 0 /\ _is_title_page(slide) THEN MainTitle
        ELSE IF _is_toc_slide_improved_simple(slide, slide_num, total_slides) THEN TOC
        ELSE IF end[1]
        THEN (IF end[2] \in {Acknowledgement, References, QA} THEN end[2] ELSE EndPage)
        ELSE IF _is_image_page(slide) THEN ImagePage
        ELSE IF Len(slide.title) > 0 /\ _count_slide_text_chars(slide) <= 50
                    /\ _is_chapter_title_simple(slide.title)
        THEN ChapterTitle
        ELSE IF has_title \/ has_content
        THEN (IF Len(slide.title) > 0 /\ _count_slide_text_chars(slide) <= 50
                    /\ _is_section_title_simple(slide.title)
              THEN SectionTitle
              ELSE Body)
        ELSE EmptyPage

_classify_slide_content_strict(slide, slide_num, total_slides) ==
    LET end == _detect_end_page_simple(slide, slide_num, total_slides)
        has_title   == Len(slide.title) > 0 /\ Len(Strip(slide.title)) > 0
        has_content == Len(slide.content) > 0 \/ Len(slide.bullet_points) > 0
    IN  IF _is_empty_slide(slide) THEN EmptyPage
        ELSE IF slide_num = 0 /\ _is_title_page(slide) THEN MainTitle
        ELSE IF _is_toc_slide_improved_simple(slide, slide_num, total_slides) THEN TOC
        ELSE IF end[1]
        THEN (IF end[2] \in {Acknowledgement, References, QA} THEN end[2] ELSE EndPage)
        ELSE IF Len(slide.title) > 0 /\ _count_slide_text_chars(slide) <= 50
                    /\ _is_chapter_title_simple(slide.title)
        THEN ChapterTitle
        ELSE IF _is_image_page(slide) THEN ImagePage
        ELSE IF has_title \/ has_content
        THEN (IF Len(slide.title) > 0 /\ _count_slide_text_chars(slide) <= 50
                    /\ _is_section_title_simple(slide.title)
              THEN SectionTitle
              ELSE Body)
        ELSE EmptyPage

\* _determine_hierarchical_level with the "+ 1" of the path-derived levels left out.
_determine_hierarchical_level_NoPlusOne(slide, content_type, current_hierarchy, slide_num) ==
    IF content_type \in {MainTitle, TOC} THEN 1
    ELSE IF content_type \in {EndPage, Acknowledgement, References, QA} THEN 1
    ELSE IF content_type = ChapterTitle THEN 2
    ELSE IF content_type = SectionTitle THEN 3
    ELSE IF content_type = ImagePage THEN Len(current_hierarchy)
    ELSE Len(current_hierarchy)

_determine_hierarchical_level(slide, content_type, current_hierarchy, slide_num) ==
    IF content_type \in {MainTitle, TOC} THEN 1
    ELSE IF content_type \in {EndPage, Acknowledgement, References, QA} THEN 1
    ELSE IF content_type = ChapterTitle THEN 2
    ELSE IF content_type = SectionTitle THEN 3
    ELSE IF content_type = ImagePage THEN Len(current_hierarchy) + 1
    ELSE Len(current_hierarchy) + 1

----------------------------------------------------------------------------
(* Content elements                                                        *)

\* _analyze_content_elements with the bullets put before the paragraphs.
_analyze_content_elements_BulletsFirst(slide, content_type) ==
    LET heading ==
            IF Len(slide.title) > 0
            THEN << [type |-> "heading", content |-> slide.title, format |-> "heading",
                     importance |-> IF content_type \in {MainTitle, ChapterTitle, ImagePage}
                                    THEN "high"
                                    ELSE IF content_type \in {TOC, EndPage, Acknowledgement}
                                    THEN "medium"
                                    ELSE "low"] >>
            ELSE <<>>
        paragraphs ==
            [k \in 1..Len(slide.content) |->
                [type |-> IF Len(slide.content[k]) < 50 THEN "shortPhrase" ELSE "paragraph",
                 content |-> slide.content[k], format |-> "paragraph",
                 importance |-> IF k = 1 /\ Len(slide.content[k]) > 10
                                THEN "medium" ELSE "low"]]
        bullets ==
            [k \in 1..Len(slide.bullet_points) |->
                [type |-> "bullet", content |-> slide.bullet_points[k],
                 format |-> "listItem", importance |-> "medium"]]
        images ==
            [k \in 1..Len(slide.images) |->
                [type |-> "image",
                 content |-> <<22270, 29255, 32>> \o IntToStr(k),
                 format |-> "image",
                 importance |-> IF content_type = ImagePage THEN "high" ELSE "medium",
                 image_ref |-> slide.images[k]]]
        note ==
            IF Len(slide.notes) > 0
            THEN << [type |-> "note", content |-> slide.notes, format |-> "note",
                     importance |-> "low"] >>
            ELSE <<>>
    IN  heading \o bullets \o paragraphs \o images \o note

_analyze_content_elements(slide, content_type) ==
    LET heading ==
            IF Len(slide.title) > 0
            THEN << [type |-> "heading", content |-> slide.title, format |-> "heading",
                     importance |-> IF content_type \in {MainTitle, ChapterTitle, ImagePage}
                                    THEN "high"
                                    ELSE IF content_type \in {TOC, EndPage, Acknowledgement}
                                    THEN "medium"
                                    ELSE "low"] >>
            ELSE <<>>
        paragraphs ==
            [k \in 1..Len(slide.content) |->
                [type |-> IF Len(slide.content[k]) < 50 THEN "shortPhrase" ELSE "paragraph",
                 content |-> slide.content[k], format |-> "paragraph",
                 importance |-> IF k = 1 /\ Len(slide.content[k]) > 10
                                THEN "medium" ELSE "low"]]
        bullets ==
            [k \in 1..Len(slide.bullet_points) |->
                [type |-> "bullet", content |-> slide.bullet_points[k],
                 format |-> "listItem", importance |-> "medium"]]
        images ==
            [k \in 1..Len(slide.images) |->
                [type |-> "image",
                 content |-> <<22270, 29255, 32>> \o IntToStr(k),    \* f"图片 {i+1}"
                 format |-> "image",
                 importance |-> IF content_type = ImagePage THEN "high" ELSE "medium",
                 image_ref |-> slide.images[k]]]
        note ==
            IF Len(slide.notes) > 0
            THEN << [type |-> "note", content |-> slide.notes, format |-> "note",
                     importance |-> "low"] >>
            ELSE <<>>
    IN  heading \o paragraphs \o bullets \o images \o note

----------------------------------------------------------------------------
(* Structure records                                                       *)

\* text[:50]
Prefix50(text) == SubSeq(text, 1, IF Len(text) < 50 THEN Len(text) ELSE 50)

_classify_first_slide(slide) ==
    LET is_title_page == _is_title_page(slide)
        content_type ==
            IF is_title_page THEN MainTitle
            ELSE _classify_slide_content_strict(slide, 0, 1)
        title0 == IF Len(slide.title) > 0 THEN slide.title ELSE MainTitle
        title ==
            IF is_title_page
            THEN IF title0 = SlideLabel(1)
                 THEN IF Len(slide.content) > 0 THEN Prefix50(slide.content[1])
                      ELSE IF Len(slide.bullet_points) > 0
                      THEN Prefix50(slide.bullet_points[1])
                      ELSE title0
                 ELSE title0
            ELSE IF Len(slide.title) > 0 THEN slide.title ELSE SlideLabel(1)
    IN  [slide_number       |-> 0,
         title              |-> title,
         content_type       |-> content_type,
         hierarchical_level |-> 1,
         parent_titles      |-> <<>>,
         content_elements   |-> _analyze_content_elements(slide, content_type),
         has_images         |-> Len(slide.images) > 0,
         is_title_page      |-> is_title_page,
         is_toc             |-> FALSE,
         is_empty           |-> _is_empty_slide(slide),
         is_end_section     |-> FALSE]

_create_toc_structure(slide, current_hierarchy) ==
    LET title0 == IF Len(slide.title) > 0 THEN slide.title ELSE TOC
        title ==
            IF title0 = SlideLabel(slide.slide_number + 1)
            THEN IF Len(slide.content) > 0
                 THEN (IF Len(slide.content[1]) < 30 THEN slide.content[1] ELSE title0)
                 ELSE IF Len(slide.bullet_points) > 0
                 THEN (IF Len(slide.bullet_points[1]) < 30 THEN slide.bullet_points[1]
                       ELSE title0)
                 ELSE title0
            ELSE title0
    IN  [slide_number       |-> slide.slide_number,
         title              |-> title,
         content_type       |-> TOC,
         hierarchical_level |-> Len(current_hierarchy) + 1,
         parent_titles      |-> current_hierarchy,
         content_elements   |-> _analyze_content_elements(slide, TOC),
         has_images         |-> Len(slide.images) > 0,
         is_title_page      |-> FALSE,
         is_toc             |-> TRUE,
         is_empty           |-> _is_empty_slide(slide),
         is_end_section     |-> FALSE]

\* _create_end_structure with the elements analysed as those of a 结尾页,
\* whatever the ending type.
_create_end_structure_ElementsOfEndPage(slide, end_type) ==
    [slide_number       |-> slide.slide_number,
     title              |-> IF Len(slide.title) > 0 THEN slide.title ELSE end_type,
     content_type       |-> end_type,
     hierarchical_level |-> 1,
     parent_titles      |-> <<EndSection>>,
     content_elements   |-> _analyze_content_elements(slide, EndPage),
     has_images         |-> Len(slide.images) > 0,
     is_title_page      |-> FALSE,
     is_toc             |-> FALSE,
     is_empty           |-> _is_empty_slide(slide),
     is_end_section     |-> TRUE]

_create_end_structure(slide, end_type) ==
    [slide_number       |-> slide.slide_number,
     title              |-> IF Len(slide.title) > 0 THEN slide.title ELSE end_type,
     content_type       |-> end_type,
     hierarchical_level |-> 1,
     parent_titles      |-> <<EndSection>>,
     content_elements   |-> _analyze_content_elements(slide, end_type),
     has_images         |-> Len(slide.images) > 0,
     is_title_page      |-> FALSE,
     is_toc             |-> FALSE,
     is_empty           |-> _is_empty_slide(slide),
     is_end_section     |-> TRUE]

\* The structure record built in the loop body for a slide that is neither
\* a TOC-run slide nor an ending slide (is_toc and is_end are both False).
ClassifiedStructure(slide, slide_num, content_type, current_hierarchy) ==
    [slide_number       |-> slide.slide_number,
     title              |-> IF Len(slide.title) > 0 THEN slide.title
                            ELSE SlideLabel(slide.slide_number + 1),
     content_type       |-> content_type,
     hierarchical_level |-> _determine_hierarchical_level(slide, content_type,
                                                          current_hierarchy, slide_num),
     parent_titles      |-> current_hierarchy,
     content_elements   |-> _analyze_content_elements(slide, content_type),
     has_images         |-> Len(slide.images) > 0,
     is_title_page      |-> FALSE,
     is_toc             |-> FALSE,
     is_empty           |-> _is_empty_slide(slide),
     is_end_section     |-> FALSE]

\* title in current_hierarchy
InPath(title, path) == \E k \in 1..Len(path) : path[k] = title

\* _update_hierarchy_path appending the title without looking for it in the
\* path first.
_update_hierarchy_path_NoMembershipTest(structure, current_hierarchy) ==
    IF structure.content_type \in {ChapterTitle, ImagePage}
    THEN IF structure.hierarchical_level <= Len(current_hierarchy)
         THEN current_hierarchy
         ELSE IF Len(structure.title) > 0
         THEN Append(current_hierarchy, structure.title)
         ELSE current_hierarchy
    ELSE current_hierarchy

\* _update_hierarchy_path with the truncation done on the caller's list.
_update_hierarchy_path_TruncatesInPlace(structure, current_hierarchy) ==
    IF structure.content_type \in {ChapterTitle, ImagePage}
    THEN LET kept == IF structure.hierarchical_level <= Len(current_hierarchy)
                     THEN SubSeq(current_hierarchy, 1, structure.hierarchical_level - 1)
                     ELSE current_hierarchy
         IN  IF Len(structure.title) > 0 /\ ~InPath(structure.title, kept)
             THEN Append(kept, structure.title)
             ELSE kept
    ELSE current_hierarchy

\* _update_hierarchy_path treating a 小节标题 like a 章节标题.
_update_hierarchy_path_SectionsToo(structure, current_hierarchy) ==
    IF structure.content_type \in {ChapterTitle, ImagePage, SectionTitle}
    THEN IF structure.hierarchical_level <= Len(current_hierarchy)
         THEN current_hierarchy
         ELSE IF Len(structure.title) > 0 /\ ~InPath(structure.title, current_hierarchy)
         THEN Append(current_hierarchy, structure.title)
         ELSE current_hierarchy
    ELSE current_hierarchy

\* The caller's list after _update_hierarchy_path(structure, current_hierarchy).
\* The truncation assigns a new list to the local name, so when it runs the
\* append goes to that new list and the caller's list is left as it was.
_update_hierarchy_path(structure, current_hierarchy) ==
    IF structure.content_type \in {ChapterTitle, ImagePage}
    THEN IF structure.hierarchical_level <= Len(current_hierarchy)
         THEN current_hierarchy
         ELSE IF Len(structure.title) > 0 /\ ~InPath(structure.title, current_hierarchy)
         THEN Append(current_hierarchy, structure.title)
         ELSE current_hierarchy
    ELSE current_hierarchy

----------------------------------------------------------------------------
(* Slide records the extractor can deliver (title of at most 50 characters,*)
(* remaining texts split into paragraphs and bullets).                     *)

Dashes == [k \in 1..100 |-> 45]        \* "-" * 100
Letters == [k \in 1..101 |-> 120]      \* "x" * 101

RawSlide(title, content, bullet_points, nimages) ==
    [title |-> title, content |-> content, bullet_points |-> bullet_points,
     nimages |-> nimages, notes |-> <<>>]

SlidePool ==
    { RawSlide(<<>>, <<>>, <<>>, 0),                                   \* nothing at all
      RawSlide(<<30446, 24405>>, <<>>, << <<49, 46, 32, 24341, 35328>> >>, 0),  \* 目录 / "1. 引言"
      RawSlide(<<35838, 31243, 27719, 25253, 65306, 26426, 22120, 23398, 20064, 23548, 35770>>,
               <<>>, <<>>, 0),                                         \* 课程汇报：机器学习导论
      RawSlide(<<50, 12289, 26041, 27861>>, <<Dashes>>, <<>>, 1),      \* 2、方法 + dashes + a picture
      RawSlide(<<97, 12289, 26041, 27861>>, <<>>, <<>>, 0),            \* a、方法
      RawSlide(<<49, 46, 49, 32, 25968, 25454, 39044, 22788, 29702>>, <<>>, <<>>, 0),  \* 1.1 数据预处理
      RawSlide(<<>>, <<>>, <<>>, 1),                                   \* one picture only
      RawSlide(<<26041, 27861>>, <<Letters>>, <<>>, 0),                \* 方法 + long paragraph
      RawSlide(<<35874, 35874>>, <<Dashes>>, <<>>, 0),                 \* 谢谢 + dashes
      RawSlide(<<35874, 35874, 35266, 30475>>, <<>>, <<>>, 0) }        \* 谢谢观看

\* The SlideContent _parse_slide_enhanced returns for slide number slide_num.
SlideContent(raw, slide_num) ==
    [slide_number  |-> slide_num,
     title         |-> raw.title,
     content       |-> raw.content,
     bullet_points |-> raw.bullet_points,
     images        |-> [k \in 1..raw.nimages |-> <<slide_num, k - 1>>],
     notes         |-> raw.notes]

----------------------------------------------------------------------------
(* The classification functions are pure in the slide and its position.    *)
(* They are tabulated over the slides a deck of the model can hold, so     *)
(* that each is evaluated once per slide and position.                     *)

DeckSlides == {SlideContent(raw, n) : raw \in SlidePool, n \in 0..(MaxSlides - 1)}

DeckSizes == 1..MaxSlides

\* the keyword test of _is_toc_slide_improved(slide, ...)
TocKeywordOf == [slide \in DeckSlides |-> HasTocKeyword(slide)]

\* _detect_end_page(slide, slide.slide_number, total_slides)
EndPageOf ==
    [slide \in DeckSlides, total_slides \in DeckSizes |->
        _detect_end_page(slide, slide.slide_number, total_slides)]

\* _classify_slide_content_strict(slide, slide.slide_number, total_slides)
ContentTypeOf ==
    [slide \in DeckSlides, total_slides \in DeckSizes |->
        _classify_slide_content_strict(slide, slide.slide_number, total_slides)]

\* _classify_first_slide(slide)
FirstStructureOf ==
    [slide \in {s \in DeckSlides : s.slide_number = 0} |-> _classify_first_slide(slide)]

----------------------------------------------------------------------------
(* The parser instance and one parse_pptx call                             *)

VARIABLES
    toc_found,           \* self.toc_found
    toc_slides,          \* self.toc_slides
    pc,                  \* position in parse_pptx: "idle", "parse", "loop", "done"
    slides,              \* slides_content
    i,                   \* loop index of _analyze_hierarchical_structure
    current_hierarchy,   \* current_hierarchy
    structure_results,   \* structure_results
    heap,                \* the list objects of the pass, by identity (1, 2, ...)
    path_ref,            \* the list object the name current_hierarchy is bound to
    parent_refs,         \* per record, the list object its parent_titles field holds
    runs,                \* per caller of ppt_parser.parse_pptx, the locals of its call
    ex_pc,               \* position in the slide loop of parse_pptx, shape by shape view
    prs_slide,           \* the slide of prs.slides last handed to _parse_slide_enhanced
    slide_content,       \* what that call returned: <<>> or <<the SlideContent>>
    slides_read,         \* len(slides_content)
    clean_pc,            \* position of a caller of _clean_text
    raw_text,            \* the text argument of _clean_text
    clean_once,          \* what _clean_text returned for it
    clean_twice,         \* what _clean_text returned for that result
    file_store,          \* api.file_store: per file id, <<>> or <<the stored structure>>
    hierarchy_analysis_results,  \* api.hierarchy_analysis_results: <<>> or <<the list>>
    api_pc,              \* how the last request handler ended
    expanded_file,       \* the file_id of the last expand-by-hierarchy request
    expansion_task,      \* <<>> or <<the slides handed to expand_multiple_slides>>
    el_pc,               \* position of a caller of _analyze_content_elements
    el_slide,            \* its slide argument
    el_content_type,     \* its content_type argument
    el_elements,         \* the list it returned
    el_structure         \* <<>> or <<the SlideStructure built for the slide>>

vars == <<toc_found, toc_slides, pc, slides, i, current_hierarchy, structure_results,
          heap, path_ref, parent_refs, runs, ex_pc, prs_slide, slide_content, slides_read,
          clean_pc, raw_text, clean_once, clean_twice,
          file_store, hierarchy_analysis_results, api_pc, expanded_file, expansion_task,
          el_pc, el_slide, el_content_type, el_elements, el_structure>>

\* The slide loop of parse_pptx seen shape by shape.
extractVars == <<ex_pc, prs_slide, slide_content, slides_read>>

\* The locals of the one call followed slide by slide.
passVars == <<pc, slides, i, current_hierarchy, structure_results,
              heap, path_ref, parent_refs>>

\* A call of _clean_text on its own.
cleanVars == <<clean_pc, raw_text, clean_once, clean_twice>>

\* The request handlers of src/api.py.
apiVars == <<file_store, hierarchy_analysis_results, api_pc, expanded_file, expansion_task>>

\* A call of _analyze_content_elements, on its own or for a record.
elemVars == <<el_pc, el_slide, el_content_type, el_elements, el_structure>>

\* The functions called on their own, and the request handlers.
unitVars == <<cleanVars, apiVars, elemVars>>

\* The file ids of the uploads (one upload is followed).
Files == {1}

\* What the one call followed slide by slide leaves alone.
others == <<runs, extractVars, unitVars>>

\* The callers of parse_pptx on the module-level instance ppt_parser.
Runs == {1, 2}

\* A caller that has not called parse_pptx yet.
IdleRun ==
    [pc |-> "idle", slides |-> <<>>, i |-> 0, current_hierarchy |-> <<>>,
     structure_results |-> <<>>]

\* A new list object: its identity is the next free one.
Alloc(h, list) == Append(h, list)

\* current_hierarchy.copy() returning the very list it was called on.
ListCopy_SameObject(h, ref) == ref

\* The object current_hierarchy.copy() returns: a new list, not the one it
\* was called on (its content is put on the heap by the caller's Alloc).
ListCopy(h, ref) == Len(h) + 1

\* PPTParser.__init__
Init ==
    /\ toc_found = FALSE
    /\ toc_slides = <<>>
    /\ pc = "idle"
    /\ slides = <<>>
    /\ i = 0
    /\ current_hierarchy = <<>>
    /\ structure_results = <<>>
    /\ heap = <<>>
    /\ path_ref = 0
    /\ parent_refs = <<>>
    /\ runs = [r \in Runs |-> IdleRun]
    /\ ex_pc = "idle"
    /\ prs_slide = [shapes |-> <<>>, background |-> "other", notes |-> [st |-> "absent", val |-> <<>>]]
    /\ slide_content = <<>>
    /\ slides_read = 0
    /\ clean_pc = "idle"
    /\ raw_text = <<>>
    /\ clean_once = <<>>
    /\ clean_twice = <<>>
    /\ file_store = [f \in Files |-> <<>>]
    /\ hierarchy_analysis_results = [f \in Files |-> <<>>]
    /\ api_pc = "idle"
    /\ expanded_file = 0
    /\ expansion_task = <<>>
    /\ el_pc = "idle"
    /\ el_slide = [slide_number |-> 0, title |-> <<>>, content |-> <<>>,
                   bullet_points |-> <<>>, images |-> <<>>, notes |-> <<>>]
    /\ el_content_type = <<>>
    /\ el_elements = <<>>
    /\ el_structure = <<>>

\* parse_pptx up to the slide loop: the TOC markers are reset.
ParsePptx ==
    /\ pc \in {"idle", "done"}
    /\ toc_found' = FALSE
    /\ toc_slides' = <<>>
    /\ slides' = <<>>
    /\ i' = 0
    /\ current_hierarchy' = <<>>
    /\ structure_results' = <<>>
    /\ heap' = <<>>
    /\ path_ref' = 0
    /\ parent_refs' = <<>>
    /\ pc' = "parse"
    /\ UNCHANGED others

\* One iteration of the slide loop of parse_pptx.
ParseSlide ==
    /\ pc = "parse"
    /\ Len(slides) < MaxSlides
    /\ \E raw \in SlidePool : slides' = Append(slides, SlideContent(raw, Len(slides)))
    /\ UNCHANGED <<toc_found, toc_slides, pc, i, current_hierarchy, structure_results,
                   heap, path_ref, parent_refs, others>>

\* _analyze_hierarchical_structure up to the loop: the empty deck returns
\* at once, otherwise the first slide is classified and the path is set up.
AnalyzeFirst ==
    /\ pc = "parse"
    /\ IF Len(slides) = 0
       THEN /\ structure_results' = <<>>
            /\ pc' = "done"
            /\ UNCHANGED <<i, current_hierarchy, heap, path_ref, parent_refs>>
       ELSE LET first_structure == FirstStructureOf[slides[1]]
            IN  /\ structure_results' = <<first_structure>>
                /\ current_hierarchy' = <<first_structure.title>>
                \* parent_titles=[] and [first_structure.title] are new lists
                /\ heap' = Alloc(Alloc(heap, <<>>), <<first_structure.title>>)
                /\ parent_refs' = <<Len(heap) + 1>>
                /\ path_ref' = Len(heap) + 2
                /\ i' = 1
                /\ pc' = IF 1 < Len(slides) THEN "loop" ELSE "done"
    /\ UNCHANGED <<toc_found, toc_slides, slides, others>>

\* The loop position after iteration i.
Advance ==
    /\ i' = i + 1
    /\ pc' = IF i + 1 < Len(slides) THEN "loop" ELSE "done"

\* _is_toc_slide_improved(slide, slide_num, slides) returns True in two
\* cases: the slide starts the TOC run, or it extends the run by one.
TocStarts(slide) == TocKeywordOf[slide] /\ ~toc_found

TocExtends(slide, slide_num) ==
    TocKeywordOf[slide] /\ toc_found /\ slide_num = toc_slides[Len(toc_slides)] + 1

_is_toc_slide_improved(slide, slide_num) ==
    TocStarts(slide) \/ TocExtends(slide, slide_num)

\* The TOC branch with a slide that extends the run merged into the run's
\* record instead of getting a record of its own.
TocStep_MergedRun ==
    /\ pc = "loop"
    /\ LET slide == slides[i + 1]
       IN  /\ _is_toc_slide_improved(slide, i)
           /\ toc_found' = TRUE
           /\ toc_slides' = IF ~toc_found THEN <<i>> ELSE Append(toc_slides, i)
           /\ structure_results' =
                  IF ~toc_found
                  THEN Append(structure_results,
                              _create_toc_structure(slide, current_hierarchy))
                  ELSE structure_results
           /\ current_hierarchy' =
                  IF ~InPath(TOC, current_hierarchy) /\ ~InPath(Outline, current_hierarchy)
                  THEN Append(current_hierarchy,
                              IF slide.title # Outline THEN TOC ELSE Outline)
                  ELSE current_hierarchy
           \* the record holds current_hierarchy.copy(); the append is in place
           /\ parent_refs' = Append(parent_refs, ListCopy(heap, path_ref))
           /\ heap' = [Alloc(heap, heap[path_ref]) EXCEPT ![path_ref] = current_hierarchy']
           /\ path_ref' = path_ref
    /\ Advance
    /\ UNCHANGED <<slides, others>>

\* Loop body, TOC branch.
TocStep ==
    /\ pc = "loop"
    /\ LET slide == slides[i + 1]
       IN  /\ _is_toc_slide_improved(slide, i)
           /\ toc_found' = TRUE
           /\ toc_slides' = IF ~toc_found THEN <<i>> ELSE Append(toc_slides, i)
           /\ structure_results' =
                  Append(structure_results, _create_toc_structure(slide, current_hierarchy))
           /\ current_hierarchy' =
                  IF ~InPath(TOC, current_hierarchy) /\ ~InPath(Outline, current_hierarchy)
                  THEN Append(current_hierarchy,
                              IF slide.title # Outline THEN TOC ELSE Outline)
                  ELSE current_hierarchy
           \* the record holds current_hierarchy.copy(); the append is in place
           /\ parent_refs' = Append(parent_refs, ListCopy(heap, path_ref))
           /\ heap' = [Alloc(heap, heap[path_ref]) EXCEPT ![path_ref] = current_hierarchy']
           /\ path_ref' = path_ref
    /\ Advance
    /\ UNCHANGED <<slides, others>>

\* Loop body, ending branch.
EndStep ==
    /\ pc = "loop"
    /\ LET slide == slides[i + 1]
           end == EndPageOf[slide, Len(slides)]
       IN  /\ ~_is_toc_slide_improved(slide, i)
           /\ end[1]
           /\ structure_results' =
                  Append(structure_results, _create_end_structure(slide, end[2]))
           /\ current_hierarchy' = <<EndSection>>
           \* parent_titles=["结尾部分"] and the path's ["结尾部分"] are new lists
           /\ heap' = Alloc(Alloc(heap, <<EndSection>>), <<EndSection>>)
           /\ parent_refs' = Append(parent_refs, Len(heap) + 1)
           /\ path_ref' = Len(heap) + 2
    /\ Advance
    /\ UNCHANGED <<toc_found, toc_slides, slides, others>>

\* Loop body, ordinary classification.
ClassifyStep ==
    /\ pc = "loop"
    /\ LET slide == slides[i + 1]
           end == EndPageOf[slide, Len(slides)]
           structure == ClassifiedStructure(slide, i, ContentTypeOf[slide, Len(slides)],
                                            current_hierarchy)
       IN  /\ ~_is_toc_slide_improved(slide, i)
           /\ ~end[1]
           /\ structure_results' = Append(structure_results, structure)
           /\ current_hierarchy' = _update_hierarchy_path(structure, current_hierarchy)
           \* the record holds current_hierarchy.copy(); the path's list is the
           \* argument _update_hierarchy_path appends to
           /\ parent_refs' = Append(parent_refs, ListCopy(heap, path_ref))
           /\ heap' = [Alloc(heap, heap[path_ref]) EXCEPT ![path_ref] = current_hierarchy']
           /\ path_ref' = path_ref
    /\ Advance
    /\ UNCHANGED <<toc_found, toc_slides, slides, others>>

Next == ParsePptx \/ ParseSlide \/ AnalyzeFirst \/ TocStep \/ EndStep \/ ClassifyStep

Spec == Init /\ [][Next]_vars

----------------------------------------------------------------------------
(* Properties of the structure records                                     *)

EndingTypes == {EndPage, Acknowledgement, References, QA}

\* The records produced so far, by position (record k is for slide k - 1).
Records == 1..Len(structure_results)

\* C1: the pass returns exactly one record per input slide, in input order,
\* record k carrying the slide index of the k-th slide; the empty deck
\* yields the empty list.
C1_OneRecordPerSlide ==
    /\ pc = "loop" => Len(structure_results) = i
    /\ pc = "done" =>
          /\ Len(structure_results) = Len(slides)
          /\ \A k \in Records :
                structure_results[k].slide_number = slides[k].slide_number

C1_Witness ==
    /\ pc = "done"
    /\ Len(slides) >= 3
    /\ \E k \in Records : structure_results[k].is_toc
    /\ structure_results[Len(structure_results)].is_end_section

\* C2: ending-type records appear only at the last index of the deck.
C2_EndingOnlyLast ==
    \A k \in Records :
        structure_results[k].content_type \in EndingTypes => k = Len(slides)

\* C3: at most one record is MainTitle, and only the record of index 0.
C3_SingleMainTitle ==
    \A k \in Records : structure_results[k].content_type = MainTitle => k = 1

C3_Witness ==
    /\ pc = "done"
    /\ Len(slides) >= 2
    /\ structure_results[1].content_type = MainTitle
    /\ \E k \in 2..Len(slides) :
          /\ slides[k].title = slides[1].title
          /\ Contains(slides[k].title, <<65306>>)

\* C4: MainTitle, TOC and ending-type records have level 1.
C4_PinnedLevelOne ==
    \A k \in Records :
        structure_results[k].content_type \in ({MainTitle, TOC} \cup EndingTypes)
            => structure_results[k].hierarchical_level = 1

\* C5: after a slide at index >= 1 is classified ChapterTitle the path is
\* the first entry followed by that chapter's title, and a Body slide that
\* directly follows a ChapterTitle slide has that chapter's title as the
\* last entry of its parentPath.
C5_ChapterEntersPath ==
    /\ LET n == Len(structure_results)
       IN  (n >= 2 /\ structure_results[n].content_type = ChapterTitle)
               => /\ Len(current_hierarchy) = 2
                  /\ current_hierarchy[2] = structure_results[n].title
    /\ \A k \in Records :
          (k >= 3 /\ structure_results[k].content_type = Body
                  /\ structure_results[k - 1].content_type = ChapterTitle)
              => LET parents == structure_results[k].parent_titles
                 IN  parents[Len(parents)] = structure_results[k - 1].title

\* C6: every Body or ImagePage record has level = len(parentPath) + 1.
C6_BodyLevelMatchesPath ==
    \A k \in Records :
        structure_results[k].content_type \in {Body, ImagePage}
            => structure_results[k].hierarchical_level
                   = Len(structure_results[k].parent_titles) + 1

C6_Witness ==
    /\ \E k \in Records :
          /\ structure_results[k].content_type = Body
          /\ Len(structure_results[k].parent_titles) >= 3
    /\ \E k \in Records :
          /\ structure_results[k].content_type = ImagePage
          /\ Len(structure_results[k].parent_titles) >= 2
    /\ \E k \in Records : k = 1 /\ structure_results[k].content_type = Body

\* C7: every record that is neither TOC nor an ending type has
\* level = len(parentPath) + 1.
C7_LevelMatchesPath ==
    \A k \in Records :
        structure_results[k].content_type \notin ({TOC} \cup EndingTypes)
            => structure_results[k].hierarchical_level
                   = Len(structure_results[k].parent_titles) + 1

\* C8: every ChapterTitle record has level 2 and every SectionTitle record
\* has level 3, at every index including index 0.
C8_HeadingLevels ==
    \A k \in Records :
        /\ structure_results[k].content_type = ChapterTitle
               => structure_results[k].hierarchical_level = 2
        /\ structure_results[k].content_type = SectionTitle
               => structure_results[k].hierarchical_level = 3

\* C9: a slide with no title, paragraphs, bullets or images is classified
\* EmptyPage with isEmpty = true at every position of the deck.
C9_EmptyIsEmptyPage ==
    \A k \in Records :
        _is_empty_slide(slides[k])
            => /\ structure_results[k].content_type = EmptyPage
               /\ structure_results[k].is_empty

\* C10: every non-empty slide at index >= 1 that contains a
\* table-of-contents keyword is classified TOC.
C10_TocKeywordIsTOC ==
    \A k \in Records :
        (k >= 2 /\ ~_is_empty_slide(slides[k]) /\ TocKeywordOf[slides[k]])
            => structure_results[k].content_type = TOC

\* A slide whose only text is a thanks phrase, stored as the title.
ThanksOnlyOf ==
    [slide \in DeckSlides |->
        /\ slide.content = <<>>
        /\ slide.bullet_points = <<>>
        /\ ContainsAny(Lower(slide.title),
                       << <<35874, 35874>>, <<24863, 35874>>, <<116, 104, 97, 110, 107>> >>)]

\* C11: in a deck of at least two slides, a last slide whose only text is a
\* thanks phrase held as its title is classified Acknowledgement, with
\* level 1 and isEndSection = true.
C11_ThanksIsAcknowledgement ==
    (pc = "done" /\ Len(slides) >= 2 /\ ThanksOnlyOf[slides[Len(slides)]])
        => LET last == structure_results[Len(slides)]
           IN  /\ last.content_type = Acknowledgement
               /\ last.hierarchical_level = 1
               /\ last.is_end_section

\* Multi-level numbering N.N followed by text, on a slide of weight <= 50
\* without a table-of-contents keyword.
NumberedSectionOf ==
    [slide \in DeckSlides |->
        /\ ReMatch(Plus(ClsDigit) \o Lit(<<46>>) \o Plus(ClsDigit) \o Star(ClsSpace)
                       \o One(NotCls(ClsDigit.chars \cup {46, 10})) \o Star(ClsAny),
                   Strip(slide.title))
        /\ ~TocKeywordOf[slide]
        /\ _count_slide_text_chars(slide) <= 50]

\* C12: a slide that is neither first nor last, has no TOC keyword, weight
\* <= 50 and a title numbered N.N followed by text is classified
\* SectionTitle with level 3, not ChapterTitle.
C12_NumberedIsSectionTitle ==
    \A k \in Records :
        (k >= 2 /\ k < Len(slides) /\ NumberedSectionOf[slides[k]])
            => /\ structure_results[k].content_type = SectionTitle
               /\ structure_results[k].hierarchical_level = 3

\* Slide index n is in the detected TOC run.
InTocRun(n) == \E k \in 1..Len(toc_slides) : toc_slides[k] = n

\* C13: the detected TOC run is a contiguous interval of slide indexes and
\* holds exactly the records with isTOC = true; the first TOC-keyword slide
\* at an index >= 1 starts it, a TOC-keyword slide right after a slide of
\* the run joins it, and a TOC-keyword slide after the run was broken stays
\* out of it but is still classified TOC.
C13_TocRunContiguous ==
    /\ \A k \in 1..(Len(toc_slides) - 1) : toc_slides[k + 1] = toc_slides[k] + 1
    /\ \A k \in Records : structure_results[k].is_toc <=> InTocRun(k - 1)
    /\ \A k \in Records :
          (k >= 2 /\ TocKeywordOf[slides[k]])
              => /\ (\A j \in 2..(k - 1) : ~TocKeywordOf[slides[j]]) => InTocRun(k - 1)
                 /\ (k >= 3 /\ InTocRun(k - 2)) => InTocRun(k - 1)
                 /\ (\E j \in 2..(k - 1) : TocKeywordOf[slides[j]]) /\ ~InTocRun(k - 2)
                        => ~InTocRun(k - 1)
                 /\ structure_results[k].content_type = TOC

\* C14: the current hierarchy path never holds the same entry twice: a TOC
\* run adds its entry at most once, and a ChapterTitle or ImagePage title
\* already in the path is not appended again.
C14_PathHasNoDuplicates ==
    \A a, b \in 1..Len(current_hierarchy) :
        a # b => current_hierarchy[a] # current_hierarchy[b]

C14_Witness ==
    /\ pc = "done"
    /\ Len(toc_slides) >= 2
    /\ \E k \in Records :
          /\ k >= 2
          /\ structure_results[k].content_type \in {ChapterTitle, ImagePage}
          /\ structure_results[k].hierarchical_level
                 > Len(structure_results[k].parent_titles)
          /\ InPath(structure_results[k].title, structure_results[k].parent_titles)

ParentPathOf(k) == heap[parent_refs[k]]

\* C16: the parentPath stored in a record is a copy: it is the path as it
\* was when the record was built, and no later step of the pass (a TOC
\* entry or a chapter/image title appended to the path, the path reset on
\* the ending slide) changes the parentPath of a record already appended.
C16_ParentPathIsACopy ==
    /\ Len(parent_refs) = Len(structure_results)
    /\ \A k \in Records : ParentPathOf(k) = structure_results[k].parent_titles

C16_Witness ==
    /\ pc = "done"
    /\ current_hierarchy = <<EndSection>>
    /\ \E k, j \in Records :
          /\ k < j
          /\ structure_results[k].content_type \in {ChapterTitle, ImagePage}
          /\ structure_results[j].content_type = TOC
          /\ Len(ParentPathOf(k)) = 1
          /\ Len(ParentPathOf(j)) = 2
    /\ \E ref \in 1..Len(heap) : Len(heap[ref]) = 3

----------------------------------------------------------------------------
(* Several parse_pptx calls on the module-level instance ppt_parser. Each  *)
(* call has its own slides_content, loop index, path and result list; the  *)
(* TOC markers toc_found and toc_slides are fields of the one instance.    *)

MaxRunSlides == 3

\* Slides of the decks the callers parse.
RunPool ==
    { RawSlide(<<30446, 24405>>, <<>>, << <<49, 46, 32, 24341, 35328>> >>, 0),  \* 目录 / "1. 引言"
      RawSlide(<<26041, 27861>>, <<Letters>>, <<>>, 0),                \* 方法 + long paragraph
      RawSlide(<<35874, 35874, 35266, 30475>>, <<>>, <<>>, 0) }        \* 谢谢观看

\* One iteration of the loop of _analyze_hierarchical_structure on slide
\* number slide_num of total_slides, from the TOC markers found/tocs and
\* the path: the markers and the path it leaves, and the record it appends.
LoopIteration(slide, slide_num, total_slides, found, tocs, path) ==
    LET starts == TocKeywordOf[slide] /\ ~found
        extends == /\ TocKeywordOf[slide]
                   /\ found
                   /\ slide_num = tocs[Len(tocs)] + 1
        end == EndPageOf[slide, total_slides]
    IN  IF starts \/ extends
        THEN [toc_found |-> TRUE,
              toc_slides |-> IF starts THEN <<slide_num>> ELSE Append(tocs, slide_num),
              current_hierarchy |->
                  IF ~InPath(TOC, path) /\ ~InPath(Outline, path)
                  THEN Append(path, IF slide.title # Outline THEN TOC ELSE Outline)
                  ELSE path,
              structure |-> _create_toc_structure(slide, path)]
        ELSE IF end[1]
        THEN [toc_found |-> found,
              toc_slides |-> tocs,
              current_hierarchy |-> <<EndSection>>,
              structure |-> _create_end_structure(slide, end[2])]
        ELSE LET structure == ClassifiedStructure(slide, slide_num,
                                                  ContentTypeOf[slide, total_slides], path)
             IN  [toc_found |-> found,
                  toc_slides |-> tocs,
                  current_hierarchy |-> _update_hierarchy_path(structure, path),
                  structure |-> structure]

\* The loop from slide number k on, returning structure_results.
RECURSIVE LoopFrom(_, _, _, _, _, _)
LoopFrom(deck, k, found, tocs, path, results) ==
    IF k >= Len(deck) THEN results
    ELSE LET it == LoopIteration(deck[k + 1], k, Len(deck), found, tocs, path)
         IN  LoopFrom(deck, k + 1, it.toc_found, it.toc_slides, it.current_hierarchy,
                      Append(results, it.structure))

\* _analyze_hierarchical_structure(deck) as parse_pptx calls it when no
\* other call touches the instance: the markers are the ones parse_pptx
\* has just reset.
_analyze_hierarchical_structure(deck) ==
    IF Len(deck) = 0 THEN <<>>
    ELSE LET first_structure == FirstStructureOf[deck[1]]
         IN  LoopFrom(deck, 1, FALSE, <<>>, <<first_structure.title>>,
                      <<first_structure>>)

RECURSIVE DecksOfLength(_)
DecksOfLength(n) ==
    IF n = 0 THEN {<<>>}
    ELSE {Append(deck, SlideContent(raw, n - 1)) :
              deck \in DecksOfLength(n - 1), raw \in RunPool}

RunDecks == UNION {DecksOfLength(n) : n \in 0..MaxRunSlides}

\* structure_results of a deck parsed alone
AloneOf == [deck \in RunDecks |-> _analyze_hierarchical_structure(deck)]

\* parse_pptx up to the slide loop, called by r: the markers of the
\* instance are reset, whatever another call has written to them.
RunParsePptx_NoReset(r) ==
    /\ runs[r].pc \in {"idle", "done", "failed"}
    /\ runs' = [runs EXCEPT ![r] = [IdleRun EXCEPT !.pc = "parse"]]
    /\ UNCHANGED <<toc_found, toc_slides, passVars, extractVars, unitVars>>

RunParsePptx(r) ==
    /\ runs[r].pc \in {"idle", "done", "failed"}
    /\ toc_found' = FALSE
    /\ toc_slides' = <<>>
    /\ runs' = [runs EXCEPT ![r] = [IdleRun EXCEPT !.pc = "parse"]]
    /\ UNCHANGED <<passVars, extractVars, unitVars>>

\* parse_pptx called while no other call is under way (the callers of
\* api.py: parse_pptx has no await, so a call runs to its end).
SerialParsePptx(r) ==
    /\ \A q \in Runs \ {r} : runs[q].pc \in {"idle", "done", "failed"}
    /\ RunParsePptx(r)

\* One iteration of the slide loop of parse_pptx in r's call.
RunParseSlide(r) ==
    /\ runs[r].pc = "parse"
    /\ Len(runs[r].slides) < MaxRunSlides
    /\ \E raw \in RunPool :
          runs' = [runs EXCEPT ![r].slides =
                       Append(@, SlideContent(raw, Len(runs[r].slides)))]
    /\ UNCHANGED <<toc_found, toc_slides, passVars, extractVars, unitVars>>

\* _analyze_hierarchical_structure up to the loop in r's call.
RunAnalyzeFirst(r) ==
    /\ runs[r].pc = "parse"
    /\ LET deck == runs[r].slides
       IN  IF Len(deck) = 0
           THEN runs' = [runs EXCEPT ![r].pc = "done"]
           ELSE LET first_structure == FirstStructureOf[deck[1]]
                IN  runs' = [runs EXCEPT
                                ![r].structure_results = <<first_structure>>,
                                ![r].current_hierarchy = <<first_structure.title>>,
                                ![r].i = 1,
                                ![r].pc = IF 1 < Len(deck) THEN "loop" ELSE "done"]
    /\ UNCHANGED <<toc_found, toc_slides, passVars, extractVars, unitVars>>

\* One iteration of the loop of _analyze_hierarchical_structure in r's
\* call: it reads and writes the markers of the instance.
RunLoopStep(r) ==
    /\ runs[r].pc = "loop"
    /\ LET run == runs[r]
           it == LoopIteration(run.slides[run.i + 1], run.i, Len(run.slides),
                               toc_found, toc_slides, run.current_hierarchy)
       IN  /\ toc_found' = it.toc_found
           /\ toc_slides' = it.toc_slides
           /\ runs' = [runs EXCEPT
                          ![r].structure_results = Append(@, it.structure),
                          ![r].current_hierarchy = it.current_hierarchy,
                          ![r].i = run.i + 1,
                          ![r].pc = IF run.i + 1 < Len(run.slides) THEN "loop" ELSE "done"]
    /\ UNCHANGED <<passVars, extractVars, unitVars>>

\* An exception leaves r's call (the except clause of parse_pptx logs and
\* re-raises): the instance keeps what the call has written so far.
RunFails(r) ==
    /\ runs[r].pc \in {"parse", "loop"}
    /\ runs' = [runs EXCEPT ![r].pc = "failed"]
    /\ UNCHANGED <<toc_found, toc_slides, passVars, extractVars, unitVars>>

\* Calls whose per-slide steps interleave.
NextShared ==
    \E r \in Runs :
        \/ RunParsePptx(r)
        \/ RunParseSlide(r)
        \/ RunAnalyzeFirst(r)
        \/ RunLoopStep(r)
        \/ RunFails(r)

SpecShared == Init /\ [][NextShared]_vars

\* Calls one after the other.
NextSerial ==
    \E r \in Runs :
        \/ SerialParsePptx(r)
        \/ RunParseSlide(r)
        \/ RunAnalyzeFirst(r)
        \/ RunLoopStep(r)
        \/ RunFails(r)

SpecSerial == Init /\ [][NextSerial]_vars

\* C17: analyses of different decks through the shared instance do not
\* interfere: when their per-slide steps interleave, each deck's records
\* are the ones it gets when it is analysed alone.
C17_InterleavedAsAlone ==
    \A r \in Runs :
        runs[r].pc = "done" => runs[r].structure_results = AloneOf[runs[r].slides]

\* C18: classification through parse_pptx is history-independent: a deck
\* parsed after any other parse on the same instance, finished or failed
\* midway, gets the records it gets on a fresh instance, so the same deck
\* parsed twice in sequence gets identical records.
C18_HistoryIndependent ==
    /\ \A r \in Runs :
          runs[r].pc = "done" => runs[r].structure_results = AloneOf[runs[r].slides]
    /\ \A r, q \in Runs :
          (runs[r].pc = "done" /\ runs[q].pc = "done" /\ runs[r].slides = runs[q].slides)
              => runs[r].structure_results = runs[q].structure_results

\* The second call has finished on the deck of the first, whose run left
\* the markers set; or after a first call that failed with the markers set.
C18_Witness ==
    /\ runs[2].pc = "done"
    /\ Len(runs[2].slides) >= 2
    /\ \E k \in 1..Len(runs[2].structure_results) : runs[2].structure_results[k].is_toc
    /\ \/ /\ runs[1].pc = "done"
          /\ runs[1].slides = runs[2].slides
       \/ /\ runs[1].pc = "failed"
          /\ runs[1].i >= 2
          /\ \E k \in 1..Len(runs[1].structure_results) :
                runs[1].structure_results[k].is_toc

----------------------------------------------------------------------------
(* Extraction: _parse_slide_enhanced on the shapes of a slide              *)

MaxShapes == 3

\* What reading shape.text gives: "ok" with the text, "absent" (no such
\* attribute, hasattr is False), "raises" (every read raises something
\* other than AttributeError), "raises_in_try" (the reads of the if
\* succeed, the read inside the try block raises).
TextOk(text)  == [st |-> "ok", val |-> text]
NoText        == [st |-> "absent", val |-> <<>>]
TextRaises    == [st |-> "raises", val |-> <<>>]
TextRaisesInTry == [st |-> "raises_in_try", val |-> <<>>]

\* A shape by what its reads give: text as above; shape_type "picture"
\* (13), "other" or "raises"; image "present", "absent" or "raises"; fill
\* "picture" (fill.type 6), "other", "absent" or "raises".
Shape(text, shape_type, image, fill) ==
    [text |-> text, shape_type |-> shape_type, image |-> image, fill |-> fill]

Fifty == [k \in 1..50 |-> 120]         \* "x" * 50

ShapePool ==
    { Shape(TextOk(<<30446, 24405>>), "other", "absent", "other"),      \* 目录
      Shape(TextOk(<<8226, 32, 49, 46, 32, 24341, 35328>>), "other", "absent", "picture"),
                                                                        \* • 1. 引言, picture fill
      Shape(TextOk(Letters), "other", "absent", "absent"),              \* long paragraph
      Shape(TextOk(<<9, 7, 32>>), "other", "absent", "absent"),         \* tab, BEL, space
      Shape(TextOk(<<7>> \o Fifty \o <<32>>), "other", "absent", "absent"),  \* BEL + 50 x + space
      Shape(NoText, "picture", "present", "absent"),                    \* a picture
      Shape(NoText, "raises", "absent", "absent"),                      \* shape_type raises
      Shape(TextRaises, "other", "absent", "absent"),                   \* text raises
      Shape(TextRaisesInTry, "other", "absent", "absent"),              \* text raises in the try
      Shape(NoText, "other", "raises", "absent") }                      \* image raises

\* The characters _clean_text keeps.
KeptChar(c) ==
    \/ c \in {9, 10, 13}
    \/ c \in 32..126
    \/ c \in 19968..40959       \* 0x4e00-0x9fff
    \/ c \in 12352..12447       \* 0x3040-0x309F
    \/ c \in 12448..12543       \* 0x30A0-0x30FF
    \/ c \in 44032..55215       \* 0xAC00-0xD7AF
    \/ c \in 65280..65519       \* 0xFF00-0xFFEF
    \/ c \in {8226, 9702, 9642, 8227, 8259, 8729, 9675, 9673, 9678, 10003, 10004,
              8594, 10132, 10140, 10148}
    \/ c \in {12289, 12290, 65292, 65307, 65306, 65311, 65281, 12300, 12301, 12302,
              12303, 65288, 65289, 12304, 12305, 12298, 12299}
    \/ c \in {183, 8226, 8230, 8212, 65374, 65287, 65282, 65283, 65284, 65285, 65286,
              65288, 65289, 65290, 65291, 65292, 65293, 65294, 65295}

\* re.sub(r'\s+', ' ', text): of every run of white space the first
\* character stays, as a space.
CollapseSpaces(text) ==
    LET Stays(k) == ~IsSpace(text[k]) \/ k = 1 \/ ~IsSpace(text[k - 1])
        kept == SelectSeq([k \in 1..Len(text) |-> k], Stays)
    IN  [j \in 1..Len(kept) |-> IF IsSpace(text[kept[j]]) THEN 32 ELSE text[kept[j]]]

\* _clean_text with the white space collapsed before the other characters
\* are replaced.
_clean_text_CollapseFirst(text) ==
    IF Len(text) = 0 THEN <<>>
    ELSE LET collapsed == CollapseSpaces(text)
         IN  Strip([k \in 1..Len(collapsed) |->
                       IF KeptChar(collapsed[k]) THEN collapsed[k] ELSE 32])

\* _clean_text without the replacement of the other characters.
_clean_text_NoReplace(text) ==
    IF Len(text) = 0 THEN <<>> ELSE Strip(CollapseSpaces(text))

_clean_text(text) ==
    IF Len(text) = 0 THEN <<>>
    ELSE LET cleaned == [k \in 1..Len(text) |-> IF KeptChar(text[k]) THEN text[k] ELSE 32]
         IN  Strip(CollapseSpaces(cleaned))

bullet_chars ==
    {8226, 9702, 9642, 8227, 8259, 8729, 9675, 9673, 9678, 10003, 10004, 8594, 10132,
     10140, 10148}

\* [\.、\)）]
ClsListMark == Cls({46, 12289, 41, 65289})

\* The rest of the text after a re.match prefix: any characters.
AnyRest == Star(NotCls({}))

number_patterns ==
    << Plus(ClsDigit) \o One(ClsListMark) \o AnyRest,                   \* ^\d+[\.、\)）]
       One(Cls((65..90) \cup (97..122))) \o One(ClsListMark) \o AnyRest,  \* ^[a-zA-Z][\.、\)）]
       One(ClsCnNum) \o One(ClsListMark) \o AnyRest >>                  \* ^[一二三四五六七八九十][\.、\)）]

_is_bullet_point(text) ==
    \/ \E k \in 1..3 : k <= Len(text) /\ text[k] \in bullet_chars
    \/ \E n \in 1..Len(number_patterns) : ReMatch(number_patterns[n], Strip(text))
    \/ Len(text) >= 2 /\ text[1] = 32 /\ text[2] = 32
    \/ Len(text) >= 1 /\ text[1] = 9

\* The background and the notes of the slides handed to the extractor:
\* background "picture" (fill.type 6) or "other"; notes read like a text.
SlideExtras ==
    { [background |-> "other",   notes |-> NoText],
      [background |-> "picture", notes |-> NoText],
      [background |-> "other",   notes |-> TextOk(<<22791, 27880, 7>>)],   \* 备注 + BEL
      [background |-> "other",   notes |-> TextRaises] }

PoolTexts ==
    {shape.text.val : shape \in ShapePool} \cup {e.notes.val : e \in SlideExtras}

\* _clean_text(text) of the texts shapes and notes can hold
CleanOf == [text \in PoolTexts |-> _clean_text(text)]

\* _is_bullet_point(text) of the cleaned texts
BulletOf == [text \in {CleanOf[t] : t \in PoolTexts} |-> _is_bullet_point(text)]

\* First loop of _parse_slide_enhanced, from shape k on: all_texts, or the
\* exception that leaves the loop. The test of the if statement is outside
\* the try block; the except clause covers the read inside it.
RECURSIVE CollectTexts(_, _)
CollectTexts(shapes, k) ==
    IF k > Len(shapes) THEN [raised |-> FALSE, all_texts |-> <<>>]
    ELSE LET shape == shapes[k]
             rest == CollectTexts(shapes, k + 1)
         IN  IF shape.text.st = "raises" THEN [raised |-> TRUE, all_texts |-> <<>>]
             ELSE IF rest.raised THEN rest
             ELSE IF shape.text.st = "ok" /\ Len(CleanOf[shape.text.val]) > 0
             THEN [raised |-> FALSE,
                   all_texts |-> <<CleanOf[shape.text.val]>> \o rest.all_texts]
             ELSE rest

IsShortText(text) == Len(text) <= 50
IsLongText(text) == Len(text) > 50
IsBulletText(text) == BulletOf[text]
IsParagraphText(text) == ~BulletOf[text]

potential_titles(all_texts) == SelectSeq(all_texts, IsShortText)

\* all_other_texts without the candidate titles that were not chosen.
all_other_texts_TitlesDropped(all_texts) == SelectSeq(all_texts, IsLongText)

\* all_other_texts after the extend: the long texts, then the candidate
\* titles after the first.
all_other_texts(all_texts) ==
    SelectSeq(all_texts, IsLongText)
        \o (IF Len(potential_titles(all_texts)) > 1
            THEN Tail(potential_titles(all_texts)) ELSE <<>>)

\* Second loop of _parse_slide_enhanced, from shape k on: the number of
\* images, or the exception a read raises (none of them is in a try).
RECURSIVE CountImages(_, _)
CountImages(shapes, k) ==
    IF k > Len(shapes) THEN [raised |-> FALSE, image_count |-> 0]
    ELSE LET shape == shapes[k]
             rest == CountImages(shapes, k + 1)
             counted(n) == IF rest.raised THEN rest
                           ELSE [raised |-> FALSE, image_count |-> rest.image_count + n]
             failed == [raised |-> TRUE, image_count |-> 0]
         IN  IF shape.shape_type = "raises" THEN failed
             ELSE IF shape.shape_type = "picture" THEN counted(1)
             ELSE IF shape.image = "raises" THEN failed
             ELSE IF shape.image = "present" THEN counted(1)
             ELSE IF shape.fill = "raises" THEN failed
             ELSE IF shape.fill = "picture" THEN counted(1)
             ELSE counted(0)

\* _parse_slide_enhanced(slide, slide_num): the SlideContent it returns, or
\* raised. An image is <<slide_num, k>>, the background image
\* <<slide_num, -1>>. The level field is left out.
_parse_slide_enhanced(slide, slide_num) ==
    LET texts == CollectTexts(slide.shapes, 1)
        pics == CountImages(slide.shapes, 1)
        candidates == potential_titles(texts.all_texts)
        rest == all_other_texts(texts.all_texts)
    IN  IF texts.raised \/ pics.raised
        THEN [raised |-> TRUE, slide |-> <<>>]
        ELSE [raised |-> FALSE,
              slide |->
                << [slide_number  |-> slide_num,
                    title         |-> IF Len(candidates) > 0 THEN candidates[1] ELSE <<>>,
                    content       |-> SelectSeq(rest, IsParagraphText),
                    bullet_points |-> SelectSeq(rest, IsBulletText),
                    images        |-> IF pics.image_count = 0 /\ slide.background = "picture"
                                      THEN << <<slide_num, -1>> >>
                                      ELSE [k \in 1..pics.image_count |-> <<slide_num, k - 1>>],
                    notes         |-> IF slide.notes.st = "ok"
                                      THEN CleanOf[slide.notes.val] ELSE <<>>] >>]

\* parse_pptx up to the slide loop.
OpenPresentation ==
    /\ ex_pc \in {"idle", "raised", "done"}
    /\ toc_found' = FALSE
    /\ toc_slides' = <<>>
    /\ ex_pc' = "next_slide"
    /\ prs_slide' = [shapes |-> <<>>, background |-> "other", notes |-> NoText]
    /\ slide_content' = <<>>
    /\ slides_read' = 0
    /\ UNCHANGED <<passVars, runs, unitVars>>

\* The loop takes the next slide of prs.slides.
NextSlide ==
    /\ ex_pc = "next_slide"
    /\ slides_read < MaxRunSlides
    /\ \E e \in SlideExtras :
          prs_slide' = [shapes |-> <<>>, background |-> e.background, notes |-> e.notes]
    /\ slide_content' = <<>>
    /\ ex_pc' = "shapes"
    /\ UNCHANGED <<toc_found, toc_slides, slides_read, passVars, runs, unitVars>>

\* The slide has one more shape.
HasShape ==
    /\ ex_pc = "shapes"
    /\ Len(prs_slide.shapes) < MaxShapes
    /\ \E shape \in ShapePool :
          prs_slide' = [prs_slide EXCEPT !.shapes = Append(@, shape)]
    /\ UNCHANGED <<toc_found, toc_slides, ex_pc, slide_content, slides_read, passVars, runs, unitVars>>

\* slide_content = self._parse_slide_enhanced(slide, i) returns and the
\* record is appended to slides_content.
ParseSlideEnhanced ==
    /\ ex_pc = "shapes"
    /\ LET got == _parse_slide_enhanced(prs_slide, slides_read)
       IN  /\ ~got.raised
           /\ slide_content' = got.slide
    /\ slides_read' = slides_read + 1
    /\ ex_pc' = "next_slide"
    /\ UNCHANGED <<toc_found, toc_slides, prs_slide, passVars, runs, unitVars>>

\* _parse_slide_enhanced raises: the except clause of parse_pptx logs and
\* re-raises, no PPTStructure is returned.
ParseSlideEnhancedRaises ==
    /\ ex_pc = "shapes"
    /\ _parse_slide_enhanced(prs_slide, slides_read).raised
    /\ ex_pc' = "raised"
    /\ UNCHANGED <<toc_found, toc_slides, prs_slide, slide_content, slides_read,
                   passVars, runs, unitVars>>

\* The slide loop has ended; parse_pptx goes on to the analysis.
SlidesDone ==
    /\ ex_pc = "next_slide"
    /\ ex_pc' = "done"
    /\ UNCHANGED <<toc_found, toc_slides, prs_slide, slide_content, slides_read,
                   passVars, runs, unitVars>>

NextExtract ==
    \/ OpenPresentation
    \/ NextSlide
    \/ HasShape
    \/ ParseSlideEnhanced
    \/ ParseSlideEnhancedRaises
    \/ SlidesDone

SpecExtract == Init /\ [][NextExtract]_vars

\* A shape with a read that fails: its text, its shape type, its image or
\* its fill.
FailingShape(shape) ==
    \/ shape.text.st \in {"raises", "raises_in_try"}
    \/ shape.shape_type = "raises"
    \/ shape.image = "raises"
    \/ shape.fill = "raises"

ReadableShape(shape) == ~FailingShape(shape)

\* The slide without its failing shapes.
RemainingShapes(slide) == [slide EXCEPT !.shapes = SelectSeq(@, ReadableShape)]

\* C19: a failure while reading one shape of a slide is recovered locally:
\* no exception leaves the extraction of the slide or ends parse_pptx, and
\* the record of the slide is the one built from the remaining shapes.
C19_ShapeFailureRecoveredLocally ==
    /\ ex_pc # "raised"
    /\ (ex_pc = "next_slide" /\ slide_content # <<>>) =>
          slide_content = _parse_slide_enhanced(RemainingShapes(prs_slide),
                                                slides_read - 1).slide

\* The number of times x occurs in the sequence s.
Occurrences(s, x) == Cardinality({k \in 1..Len(s) : s[k] = x})

\* s and t hold the same elements the same number of times.
IsPermutation(s, t) ==
    /\ Len(s) = Len(t)
    /\ \A k \in 1..Len(s) : Occurrences(s, s[k]) = Occurrences(t, s[k])

\* The first text of at most 50 characters, or the empty text.
FirstShortText(texts) ==
    LET short == {k \in 1..Len(texts) : Len(texts[k]) <= 50}
    IN  IF short = {} THEN <<>>
        ELSE texts[CHOOSE k \in short : \A j \in short : k <= j]

----------------------------------------------------------------------------
(* _clean_text called on its own                                           *)

\* Longest text handed to _clean_text (bound of the model).
MaxText == 4

\* The characters of those texts: BEL, tab, newline, space, A, DEL, the
\* ideographic space, 中, •, and U+1F600.
TextChars == {7, 9, 10, 32, 65, 127, 12288, 20013, 8226, 128512}

\* A caller has a text to clean.
NewText ==
    /\ clean_pc \in {"idle", "cleaned", "again"}
    /\ clean_pc' = "text"
    /\ raw_text' = <<>>
    /\ clean_once' = <<>>
    /\ clean_twice' = <<>>
    /\ UNCHANGED <<toc_found, toc_slides, passVars, runs, extractVars, apiVars, elemVars>>

\* The text has one more character.
TextHasChar ==
    /\ clean_pc = "text"
    /\ Len(raw_text) < MaxText
    /\ \E c \in TextChars : raw_text' = Append(raw_text, c)
    /\ UNCHANGED <<clean_pc, clean_once, clean_twice>>
    /\ UNCHANGED <<toc_found, toc_slides, passVars, runs, extractVars, apiVars, elemVars>>

\* text = self._clean_text(text)
CleanText ==
    /\ clean_pc = "text"
    /\ clean_pc' = "cleaned"
    /\ clean_once' = _clean_text(raw_text)
    /\ UNCHANGED <<raw_text, clean_twice>>
    /\ UNCHANGED <<toc_found, toc_slides, passVars, runs, extractVars, apiVars, elemVars>>

\* _clean_text applied to a text it returned.
CleanTextAgain ==
    /\ clean_pc = "cleaned"
    /\ clean_pc' = "again"
    /\ clean_twice' = _clean_text(clean_once)
    /\ UNCHANGED <<raw_text, clean_once>>
    /\ UNCHANGED <<toc_found, toc_slides, passVars, runs, extractVars, apiVars, elemVars>>

NextClean ==
    \/ NewText
    \/ TextHasChar
    \/ CleanText
    \/ CleanTextAgain

SpecClean == Init /\ [][NextClean]_vars

\* C21: _clean_text is idempotent: cleaning a text it returned gives that
\* text back, for every argument, the empty text and texts of only
\* replaced or white-space characters included.
C21_CleanTextIdempotent ==
    clean_pc = "again" => clean_twice = clean_once

\* A text with a replaced character and white space between two kept
\* characters has been cleaned twice.
C21_Witness ==
    /\ clean_pc = "again"
    /\ Len(raw_text) = 4
    /\ raw_text[1] = 65
    /\ raw_text[2] = 32
    /\ ~KeptChar(raw_text[3])
    /\ raw_text[4] = 65
    /\ clean_once = <<65, 32, 65>>

\* The code points the sanitizer is declared to pass: tab, newline,
\* carriage return, printable ASCII, Han, Hiragana, Katakana, Hangul, the
\* fullwidth forms, the bullet glyphs and the punctuation marks.
AllowedCodePoint(c) ==
    \/ c \in {9, 10, 13}
    \/ c \in 32..126
    \/ c \in 19968..40959
    \/ c \in 12352..12543
    \/ c \in 44032..55215
    \/ c \in 65280..65519
    \/ c \in bullet_chars
    \/ c \in {12289, 12290, 12300, 12301, 12302, 12303, 12304, 12305, 12298, 12299}
    \/ c \in {183, 8230, 8212}

\* The allowed characters of a text that are not white space, in order.
IsVisible(c) == AllowedCodePoint(c) /\ ~IsSpace(c)
VisibleChars(text) == SelectSeq(text, IsVisible)

\* Something other than a visible character lies between the n-th and the
\* (n+1)-th visible character of the text.
GapAfter(text, n) ==
    LET at == SelectSeq([k \in 1..Len(text) |-> k], LAMBDA k : IsVisible(text[k]))
    IN  at[n + 1] > at[n] + 1

\* C22: the text _clean_text returns holds allowed code points only; its
\* visible characters are those of the argument, in order; every other
\* character of the argument has become a space, the runs of white space
\* are one space each and the ends are trimmed.
C22_CleanTextAllowListOnly ==
    clean_pc \in {"cleaned", "again"} =>
        /\ \A k \in 1..Len(clean_once) :
              /\ AllowedCodePoint(clean_once[k])
              /\ IsSpace(clean_once[k]) => clean_once[k] = 32
              /\ IsSpace(clean_once[k]) => k \notin {1, Len(clean_once)}
              /\ IsSpace(clean_once[k]) => ~IsSpace(clean_once[k + 1])
        /\ VisibleChars(clean_once) = VisibleChars(raw_text)
        /\ \A n \in 1..(Len(VisibleChars(raw_text)) - 1) :
              GapAfter(clean_once, n) <=> GapAfter(raw_text, n)

\* A text with a character outside the allow-list between two visible
\* characters has been cleaned: a space stands in its place.
C22_Witness ==
    /\ clean_pc = "cleaned"
    /\ Len(raw_text) = 3
    /\ IsVisible(raw_text[1])
    /\ ~AllowedCodePoint(raw_text[2])
    /\ IsVisible(raw_text[3])
    /\ clean_once = <<raw_text[1], 32, raw_text[3]>>

----------------------------------------------------------------------------
(* The request handlers of src/api.py around expand_by_hierarchy            *)

\* What parse_pptx returns for a deck, as file_store keeps it (metadata and
\* outline left out). The file behind a file id never changes, so a later
\* parse of it reads the same deck.
PPTStructure(deck) == [slides |-> deck, hierarchical_structure |-> AloneOf[deck]]

\* body_slides of expand_by_hierarchy without the test of the content type.
body_slides_AnyType(structure, stored_slides) ==
    LET InRange(item) == item.slide_number >= 0 /\ item.slide_number < Len(stored_slides)
        items == SelectSeq(structure, InRange)
    IN  [k \in 1..Len(items) |-> stored_slides[items[k].slide_number + 1]]

\* body_slides of expand_by_hierarchy: for every item of the structure list
\* with content type 正文 and a slide number inside the stored slides, the
\* stored slide of that number.
body_slides(structure, stored_slides) ==
    LET IsBodyItem(item) ==
            /\ item.content_type = Body
            /\ item.slide_number >= 0
            /\ item.slide_number < Len(stored_slides)
        items == SelectSeq(structure, IsBodyItem)
    IN  [k \in 1..Len(items) |-> stored_slides[items[k].slide_number + 1]]

\* upload_ppt: a new file id, the deck parsed and stored.
UploadPpt ==
    /\ \E f \in Files, deck \in RunDecks :
          /\ file_store[f] = <<>>
          /\ file_store' = [file_store EXCEPT ![f] = <<PPTStructure(deck)>>]
    /\ api_pc' = "uploaded"
    /\ UNCHANGED <<hierarchy_analysis_results, expanded_file, expansion_task>>
    /\ UNCHANGED <<toc_found, toc_slides, passVars, runs, extractVars, cleanVars, elemVars>>

\* get_hierarchical_structure: the cached result, or the list of the stored
\* structure, which is then cached.
GetHierarchicalStructure ==
    /\ \E f \in Files :
          /\ file_store[f] # <<>>
          /\ hierarchy_analysis_results' =
                IF hierarchy_analysis_results[f] # <<>> THEN hierarchy_analysis_results
                ELSE [hierarchy_analysis_results EXCEPT
                         ![f] = <<file_store[f][1].hierarchical_structure>>]
    /\ api_pc' = "hierarchy"
    /\ UNCHANGED <<file_store, expanded_file, expansion_task>>
    /\ UNCHANGED <<toc_found, toc_slides, passVars, runs, extractVars, cleanVars, elemVars>>

\* analyze_hierarchical_structure: the file parsed again, the stored
\* structure and the cached result replaced.
AnalyzeHierarchicalStructure ==
    /\ \E f \in Files :
          /\ file_store[f] # <<>>
          /\ LET structure == PPTStructure(file_store[f][1].slides)
             IN  /\ file_store' = [file_store EXCEPT ![f] = <<structure>>]
                 /\ hierarchy_analysis_results' =
                       [hierarchy_analysis_results EXCEPT
                           ![f] = <<structure.hierarchical_structure>>]
    /\ api_pc' = "analyzed"
    /\ UNCHANGED <<expanded_file, expansion_task>>
    /\ UNCHANGED <<toc_found, toc_slides, passVars, runs, extractVars, cleanVars, elemVars>>

\* The structure list expand_by_hierarchy works on for file f: the cached
\* result, or the one analyze_hierarchical_structure_internal builds.
HierarchyResponse(f) ==
    IF hierarchy_analysis_results[f] # <<>> THEN hierarchy_analysis_results[f][1]
    ELSE PPTStructure(file_store[f][1].slides).hierarchical_structure

\* expand_by_hierarchy up to asyncio.create_task: the structure list is
\* taken (and cached by the internal analysis when it was not), body_slides
\* is built and handed to knowledge_agent.expand_multiple_slides.
ExpandByHierarchy ==
    /\ \E f \in Files :
          /\ file_store[f] # <<>>
          /\ Len(body_slides(HierarchyResponse(f), file_store[f][1].slides)) > 0
          /\ hierarchy_analysis_results' =
                [hierarchy_analysis_results EXCEPT ![f] = <<HierarchyResponse(f)>>]
          /\ expansion_task' = <<body_slides(HierarchyResponse(f), file_store[f][1].slides)>>
          /\ expanded_file' = f
    /\ api_pc' = "expanding"
    /\ UNCHANGED file_store
    /\ UNCHANGED <<toc_found, toc_slides, passVars, runs, extractVars, cleanVars, elemVars>>

\* expand_by_hierarchy on a file without a 正文 item: 400, nothing is
\* scheduled.
ExpandByHierarchyNoBody ==
    /\ \E f \in Files :
          /\ file_store[f] # <<>>
          /\ Len(body_slides(HierarchyResponse(f), file_store[f][1].slides)) = 0
          /\ hierarchy_analysis_results' =
                [hierarchy_analysis_results EXCEPT ![f] = <<HierarchyResponse(f)>>]
          /\ expanded_file' = f
    /\ expansion_task' = <<>>
    /\ api_pc' = "no_body"
    /\ UNCHANGED file_store
    /\ UNCHANGED <<toc_found, toc_slides, passVars, runs, extractVars, cleanVars, elemVars>>

\* expand_by_hierarchy on a file id that is not in file_store: 404.
ExpandByHierarchyNoFile ==
    /\ \E f \in Files :
          /\ file_store[f] = <<>>
          /\ expanded_file' = f
    /\ expansion_task' = <<>>
    /\ api_pc' = "no_file"
    /\ UNCHANGED <<file_store, hierarchy_analysis_results>>
    /\ UNCHANGED <<toc_found, toc_slides, passVars, runs, extractVars, cleanVars, elemVars>>

NextExpand ==
    \/ UploadPpt
    \/ GetHierarchicalStructure
    \/ AnalyzeHierarchicalStructure
    \/ ExpandByHierarchy
    \/ ExpandByHierarchyNoBody
    \/ ExpandByHierarchyNoFile

SpecExpand == Init /\ [][NextExpand]_vars

\* The positions of the records of content type 正文 in a structure list.
BodyPositions(records) == {k \in 1..Len(records) : records[k].content_type = Body}

\* C23: when expand_by_hierarchy has scheduled the generation, the whole
\* ordered structure list of the deck is there (one record per slide), and
\* the slides handed to the generator are the slides whose record has
\* content type 正文: each once, in slide order, and no other slide.
C23_ExpandsExactlyBodySlides ==
    api_pc = "expanding" =>
        LET stored == file_store[expanded_file][1]
            records == stored.hierarchical_structure
            handed == expansion_task[1]
        IN  /\ hierarchy_analysis_results[expanded_file] = <<records>>
            /\ Len(records) = Len(stored.slides)
            /\ \A k \in 1..Len(records) : records[k].slide_number = k - 1
            /\ Len(handed) = Cardinality(BodyPositions(records))
            /\ \A j \in 1..Len(handed) :
                  /\ handed[j].slide_number + 1 \in BodyPositions(records)
                  /\ handed[j] = stored.slides[handed[j].slide_number + 1]
                  /\ j > 1 => handed[j - 1].slide_number < handed[j].slide_number

\* The generation was scheduled for a deck of three slides whose first and
\* last records are of content type 正文 and whose second is not.
C23_Witness ==
    /\ api_pc = "expanding"
    /\ Len(file_store[expanded_file][1].slides) = 3
    /\ Len(expansion_task[1]) = 2
    /\ expansion_task[1][1].slide_number = 0
    /\ expansion_task[1][2].slide_number = 2

----------------------------------------------------------------------------
(* _analyze_content_elements, called on its own and for a record           *)

\* Most paragraphs, bullets and images together on a slide (bound of the
\* model).
MaxElems == 3

\* The eleven content types.
ContentTypes ==
    {MainTitle, TOC, ChapterTitle, SectionTitle, ImagePage, Body, EndPage,
     Acknowledgement, References, QA, EmptyPage}

\* Titles, paragraphs, bullets and notes of the slides: no title, 方法,
\* 目录, 2、方法, a、方法; 11 x, 51 x, 谢谢, 参考文献; 问答; no notes, 备注.
ElTitles == {<<>>, <<26041, 27861>>, <<30446, 24405>>, <<50, 12289, 26041, 27861>>,
             <<97, 12289, 26041, 27861>>}
ElTexts == {[k \in 1..11 |-> 120], [k \in 1..51 |-> 120], <<35874, 35874>>,
            <<21442, 32771, 25991, 29486>>}
ElBullets == {<<38382, 31572>>}
ElNotes == {<<>>, <<22791, 27880>>}

\* The number of paragraphs, bullets and images of a slide.
Parts(slide) == Len(slide.content) + Len(slide.bullet_points) + Len(slide.images)

\* _parse_slide_enhanced has returned the slide of number 0, 1 or 2 of a
\* deck of three.
ElNewSlide ==
    /\ el_pc = "idle"
    /\ \E n \in 0..2, title \in ElTitles, notes \in ElNotes :
          el_slide' = [slide_number |-> n, title |-> title, content |-> <<>>,
                       bullet_points |-> <<>>, images |-> <<>>, notes |-> notes]
    /\ el_pc' = "slide"
    /\ el_content_type' = <<>>
    /\ el_elements' = <<>>
    /\ el_structure' = <<>>
    /\ UNCHANGED <<toc_found, toc_slides, passVars, runs, extractVars, cleanVars, apiVars>>

\* The slide has one more paragraph.
ElHasParagraph ==
    /\ el_pc = "slide"
    /\ Parts(el_slide) < MaxElems
    /\ \E text \in ElTexts : el_slide' = [el_slide EXCEPT !.content = Append(@, text)]
    /\ UNCHANGED <<el_pc, el_content_type, el_elements, el_structure>>
    /\ UNCHANGED <<toc_found, toc_slides, passVars, runs, extractVars, cleanVars, apiVars>>

\* The slide has one more bullet.
ElHasBullet ==
    /\ el_pc = "slide"
    /\ Parts(el_slide) < MaxElems
    /\ \E text \in ElBullets :
          el_slide' = [el_slide EXCEPT !.bullet_points = Append(@, text)]
    /\ UNCHANGED <<el_pc, el_content_type, el_elements, el_structure>>
    /\ UNCHANGED <<toc_found, toc_slides, passVars, runs, extractVars, cleanVars, apiVars>>

\* The slide has one more image.
ElHasImage ==
    /\ el_pc = "slide"
    /\ Parts(el_slide) < MaxElems
    /\ el_slide' = [el_slide EXCEPT
                       !.images = Append(@, <<el_slide.slide_number, Len(@)>>)]
    /\ UNCHANGED <<el_pc, el_content_type, el_elements, el_structure>>
    /\ UNCHANGED <<toc_found, toc_slides, passVars, runs, extractVars, cleanVars, apiVars>>

\* _analyze_content_elements(slide, content_type) for any content type.
AnalyzeContentElements ==
    /\ el_pc = "slide"
    /\ \E content_type \in ContentTypes :
          /\ el_content_type' = content_type
          /\ el_elements' = _analyze_content_elements(el_slide, content_type)
    /\ el_pc' = "elements"
    /\ UNCHANGED <<el_slide, el_structure>>
    /\ UNCHANGED <<toc_found, toc_slides, passVars, runs, extractVars, cleanVars, apiVars>>

\* The record _classify_first_slide builds for the slide of number 0.
ElClassifyFirstSlide ==
    /\ el_pc = "slide"
    /\ el_slide.slide_number = 0
    /\ el_structure' = <<_classify_first_slide(el_slide)>>
    /\ el_pc' = "structure"
    /\ UNCHANGED <<el_slide, el_content_type, el_elements>>
    /\ UNCHANGED <<toc_found, toc_slides, passVars, runs, extractVars, cleanVars, apiVars>>

\* The record the loop body of _analyze_hierarchical_structure builds for
\* the slide of number 1 or 2 of a deck of three, no TOC slide seen before
\* it, under the path [方法]: a TOC record, an ending record or a
\* classified one.
ElLoopBody ==
    /\ el_pc = "slide"
    /\ el_slide.slide_number > 0
    /\ LET path == << <<26041, 27861>> >>
           end == _detect_end_page(el_slide, el_slide.slide_number, 3)
       IN  el_structure' =
               IF HasTocKeyword(el_slide)
               THEN <<_create_toc_structure(el_slide, path)>>
               ELSE IF end[1]
               THEN <<_create_end_structure(el_slide, end[2])>>
               ELSE <<ClassifiedStructure(
                        el_slide, el_slide.slide_number,
                        _classify_slide_content_strict(el_slide, el_slide.slide_number, 3),
                        path)>>
    /\ el_pc' = "structure"
    /\ UNCHANGED <<el_slide, el_content_type, el_elements>>
    /\ UNCHANGED <<toc_found, toc_slides, passVars, runs, extractVars, cleanVars, apiVars>>

NextElements ==
    \/ ElNewSlide
    \/ ElHasParagraph
    \/ ElHasBullet
    \/ ElHasImage
    \/ AnalyzeContentElements
    \/ ElClassifyFirstSlide
    \/ ElLoopBody

SpecElements == Init /\ [][NextElements]_vars

\* 1 for a text that is not empty, 0 for the empty one.
OneIfAny(text) == IF Len(text) > 0 THEN 1 ELSE 0

\* C24: the element list of a slide is the heading (iff the title is not
\* empty), then one element per paragraph in paragraph order, then one per
\* bullet in bullet order, then one per image token, then the note (iff
\* the notes are not empty), for every content type.
C24_ElementsOrderedAndComplete ==
    el_pc = "elements" =>
        LET h == OneIfAny(el_slide.title)
            p == Len(el_slide.content)
            b == Len(el_slide.bullet_points)
            m == Len(el_slide.images)
            n == OneIfAny(el_slide.notes)
            e == el_elements
        IN  /\ Len(e) = h + p + b + m + n
            /\ h = 1 => e[1].format = "heading" /\ e[1].content = el_slide.title
            /\ \A k \in 1..p :
                  /\ e[h + k].format = "paragraph"
                  /\ e[h + k].content = el_slide.content[k]
            /\ \A k \in 1..b :
                  /\ e[h + p + k].format = "listItem"
                  /\ e[h + p + k].content = el_slide.bullet_points[k]
            /\ \A k \in 1..m :
                  /\ e[h + p + b + k].format = "image"
                  /\ e[h + p + b + k].image_ref = el_slide.images[k]
            /\ n = 1 => e[Len(e)].format = "note" /\ e[Len(e)].content = el_slide.notes

\* The element list of a slide with a title, a paragraph, a bullet, an
\* image and notes has been built.
C24_Witness ==
    /\ el_pc = "elements"
    /\ Len(el_slide.title) > 0
    /\ Len(el_slide.content) = 1
    /\ Len(el_slide.bullet_points) = 1
    /\ Len(el_slide.images) = 1
    /\ Len(el_slide.notes) > 0
    /\ Len(el_elements) = 5

\* The importance the elements of a slide are to have under a content
\* type, by kind and position.
ImportanceFollows(elements, slide, content_type) ==
    \A k \in 1..Len(elements) :
        LET e == elements[k]
            first_paragraph == OneIfAny(slide.title) + 1
        IN  e.importance =
                CASE e.format = "heading" ->
                        IF content_type \in {MainTitle, ChapterTitle, ImagePage} THEN "high"
                        ELSE IF content_type \in {TOC, EndPage, Acknowledgement} THEN "medium"
                        ELSE "low"
                  [] e.format = "image" ->
                        IF content_type = ImagePage THEN "high" ELSE "medium"
                  [] e.format = "listItem" -> "medium"
                  [] e.format = "paragraph" ->
                        IF k = first_paragraph /\ Len(e.content) > 10 THEN "medium" ELSE "low"
                  [] e.format = "note" -> "low"

\* C25: the importance of an element follows from its kind, its position
\* and the content type alone (heading: high for 主标题, 章节标题, 图片页,
\* medium for 目录, 结尾页, 致谢, low otherwise; image: high iff 图片页, else
\* medium; bullet: medium; paragraph: medium only when first and longer than
\* 10 characters; note: low), and the elements of a record are those of
\* the record's own content type.
C25_ImportanceFollowsContentType ==
    /\ el_pc = "elements" => ImportanceFollows(el_elements, el_slide, el_content_type)
    /\ el_pc = "structure" =>
          /\ ImportanceFollows(el_structure[1].content_elements, el_slide,
                               el_structure[1].content_type)
          /\ Len(el_structure[1].content_elements) =
                OneIfAny(el_slide.title) + Parts(el_slide) + OneIfAny(el_slide.notes)

\* An ending record of type 参考文献 has been built for a slide with a
\* title, a first paragraph of more than 10 characters and an image.
C25_Witness ==
    /\ el_pc = "structure"
    /\ el_structure[1].content_type = References
    /\ el_structure[1].is_end_section
    /\ Len(el_slide.title) > 0
    /\ Len(el_slide.content) = 2
    /\ Len(el_slide.content[1]) > 10
    /\ Len(el_slide.images) = 1

\* The slide weight: the CJK ideographs, letters and digits of the title,
\* the paragraphs and the bullets.
Weight(slide) == _count_text_chars(slide)

\* The first matching rule of the fixed order for a slide in the middle of
\* a deck.
FirstMatchingRule(slide) ==
    IF Len(slide.title) = 0 /\ Parts(slide) = 0 THEN EmptyPage
    ELSE IF Weight(slide) <= 50 /\ Len(slide.title) > 0
                /\ _is_chapter_title_simple(slide.title) THEN ChapterTitle
    ELSE IF Len(slide.images) >= 1 /\ Weight(slide) < 10 THEN ImagePage
    ELSE IF Weight(slide) <= 50 /\ Len(slide.title) > 0
                /\ _is_section_title_simple(slide.title) THEN SectionTitle
    ELSE IF Len(slide.title) > 0 \/ Len(slide.content) > 0 \/ Len(slide.bullet_points) > 0
    THEN Body
    ELSE <<>>

----------------------------------------------------------------------------
(* The hierarchy path across the slides of one pass                        *)

\* The content types whose slides pass through the loop without touching
\* the path.
PathNeutralTypes == {Body, SectionTitle, EmptyPage}

\* C27 as stated, for every slide of the deck: processing a slide classified
\* Body, SectionTitle or EmptyPage leaves the current hierarchy path
\* unchanged, and the path the next slide sees is the one recorded in that
\* slide's parentPath.
C27_NeutralTypesKeepPath ==
    [][LET n == Len(structure_results')
       IN  (n = Len(structure_results) + 1
               /\ structure_results'[n].content_type \in PathNeutralTypes)
              => /\ current_hierarchy' = structure_results'[n].parent_titles
                 /\ (n > 1 => /\ current_hierarchy' = current_hierarchy
                              /\ path_ref' = path_ref
                              /\ heap'[path_ref] = heap[path_ref])]_vars

\* C27: processing a slide after the first that is classified Body,
\* SectionTitle or EmptyPage leaves the current hierarchy path unchanged (the
\* same list object with the same entries), and the path the next slide sees
\* is the one recorded in that slide's parentPath.
C27_NeutralTypesKeepPathAfterFirst ==
    [][LET n == Len(structure_results')
       IN  (n = Len(structure_results) + 1 /\ n > 1
               /\ structure_results'[n].content_type \in PathNeutralTypes)
              => /\ current_hierarchy' = structure_results'[n].parent_titles
                 /\ current_hierarchy' = current_hierarchy
                 /\ path_ref' = path_ref
                 /\ heap'[path_ref] = heap[path_ref]]_vars

\* A deck of four whose slides after the first are a section title, an empty
\* page and a body slide: all three saw the path the first slide left.
C27_Witness ==
    /\ pc = "done"
    /\ Len(structure_results) = 4
    /\ structure_results[2].content_type = SectionTitle
    /\ structure_results[3].content_type = EmptyPage
    /\ structure_results[4].content_type = Body
    /\ \A k \in 2..4 : structure_results[k].parent_titles = <<structure_results[1].title>>
    /\ current_hierarchy = <<structure_results[1].title>>

\* The loop has handled the ending slide of the deck.
EndingSlideProcessed ==
    Len(structure_results) >= 2
        /\ structure_results[Len(structure_results)].is_end_section

\* The content types whose level is taken from the length of the path.
PathLevelTypes == {Body, ImagePage, EmptyPage}

\* path is an initial part of longer
IsPrefix(path, longer) ==
    Len(path) <= Len(longer) /\ \A k \in 1..Len(path) : longer[k] = path[k]

\* Before the ending slide the path starts with the first record's title.
PathRooted ==
    (Len(structure_results) >= 1 /\ ~EndingSlideProcessed)
        => /\ Len(current_hierarchy) >= 1
           /\ current_hierarchy[1] = structure_results[1].title
           /\ Len(current_hierarchy[1]) > 0

\* The path-derived levels never decrease along the deck and are at least 2
\* after the first record.
PathLevelsMonotone ==
    /\ \A a, b \in Records :
          (a < b /\ structure_results[a].content_type \in PathLevelTypes
                 /\ structure_results[b].content_type \in PathLevelTypes)
              => structure_results[a].hierarchical_level
                     <= structure_results[b].hierarchical_level
    /\ \A k \in Records :
          (k >= 2 /\ structure_results[k].content_type \in PathLevelTypes)
              => structure_results[k].hierarchical_level >= 2

----------------------------------------------------------------------------
(* The flags of the structure records                                      *)

\* C29: the structural flags of every record agree with its content type
\* and position: is_title_page is true exactly for the MainTitle records,
\* which are at index 0 only; is_toc is true only for TOC records of slides
\* in the contiguous TOC run; is_end_section is true only for a record of an
\* ending type that is the last one of a deck of at least two slides.
C29_FlagsMatchTypeAndPosition ==
    \A k \in Records :
        LET r == structure_results[k]
        IN  /\ r.is_title_page <=> r.content_type = MainTitle
            /\ r.content_type = MainTitle => k = 1
            /\ r.is_toc
                  => /\ r.content_type = TOC
                     /\ InTocRun(k - 1)
                     /\ \A n \in 1..(Len(toc_slides) - 1) :
                            toc_slides[n + 1] = toc_slides[n] + 1
            /\ r.is_end_section
                  => /\ r.content_type \in EndingTypes
                     /\ k = Len(slides)
                     /\ Len(slides) >= 2

\* A deck of four: a title page, a TOC run of two slides and an ending
\* slide, each with its flag set and the other two flags clear.
C29_Witness ==
    /\ pc = "done"
    /\ Len(structure_results) = 4
    /\ structure_results[1].is_title_page
    /\ structure_results[2].is_toc /\ structure_results[3].is_toc
    /\ structure_results[4].is_end_section
    /\ \A k \in 2..4 : ~structure_results[k].is_title_page
    /\ \A k \in {1, 4} : ~structure_results[k].is_toc
    /\ \A k \in 1..3 : ~structure_results[k].is_end_section

\* A slide with at least one image and no title, paragraph or bullet.
ImageOnly(slide) ==
    /\ Len(slide.images) >= 1
    /\ Len(slide.title) = 0
    /\ Len(slide.content) = 0
    /\ Len(slide.bullet_points) = 0

\* C30: every EmptyPage record has is_empty = true, and the last fallback of
\* the strict classifier is never reached: the record of a slide with at
\* least one image and no title, paragraph or bullet is never EmptyPage; it
\* is ImagePage, or MainTitle at index 0, or EndPage at the last index.
C30_EmptyPageIsEmpty ==
    \A k \in Records :
        LET r == structure_results[k]
        IN  /\ r.content_type = EmptyPage
                  => /\ r.is_empty
                     /\ _is_empty_slide(slides[k])
            /\ ImageOnly(slides[k])
                  => /\ r.content_type # EmptyPage
                     /\ ~r.is_empty
                     /\ \/ r.content_type = ImagePage
                        \/ (k = 1 /\ r.content_type = MainTitle)
                        \/ (k = Len(slides) /\ r.content_type = EndPage)

\* A deck of four: a picture alone at the first, a middle and the last
\* index, and a slide with nothing on it in the middle.
C30_Witness ==
    /\ pc = "done"
    /\ Len(structure_results) = 4
    /\ \A k \in {1, 2, 4} : ImageOnly(slides[k])
    /\ structure_results[1].content_type = MainTitle
    /\ structure_results[2].content_type = ImagePage
    /\ structure_results[3].content_type = EmptyPage
    /\ structure_results[3].is_empty
    /\ structure_results[4].content_type = EndPage

====
